---- MODULE Spec2Model ----
(***************************************************************************)
(* Script bootstrap, widget initialisation and widget adapter of the       *)
(* weather-map front end.                                                  *)
(*                                                                         *)
(* One document (script tags, window.L, window.windyInit) is shared by a   *)
(* bounded number of view instances of one application.  A view is one of  *)
(*   "ScriptLoader"  components/Map/ScriptLoader.tsx                       *)
(*   "Hook"          hooks/useWindyInitializer.ts, driven by the           *)
(*                   MapContainer initialisation effect                    *)
(*   "WindyMap"      undp-frontend-backup components/WindyMap.js           *)
(*   "FrontendHook"  the useWindyInitializer of the frontend application,  *)
(*                   which loads the widget script only                    *)
(*   "WindyLayer"    the context-based WindyLayer component, which uses    *)
(*                   hooks/useWindyInitializer.ts and initialises once,    *)
(*                   from a one-second timer                               *)
(*                                                                         *)
(* React is modelled at the granularity of commits: a handler writes the   *)
(* instance's state, Render commits it (the closures of the new render see *)
(* the committed values) and schedules the effects whose dependencies      *)
(* changed; effects run in declaration order and read the closure of the   *)
(* render that scheduled them.  Browser tasks (script events, timers,      *)
(* callbacks, mounts) run when no render or effect is left to flush.       *)
(*                                                                         *)
(* State updates are taken together with the commit they cause where a     *)
(* caller outside React is concerned; errors are told apart by kind, not   *)
(* by identity.  lastCall, failed, early and the counters initCalls,       *)
(* handles are history kept for the properties; the code has none of them. *)
(*                                                                         *)
(* services/windyService.ts is modelled apart from the bootstrap, over a   *)
(* handle that has any subset of its sub-objects (SpecService).            *)
(***************************************************************************)
EXTENDS Integers, Sequences, FiniteSets, TLC

\* Number of view instances that can be mounted on the document.
NumInst == 2
\* Cap on the invocations of window.windyInit per instance (retries after a throw).
MaxInitCalls == 2
\* Cap on the pending onLoad timers of one ScriptLoader.
MaxTimers == 1

Inst == 1..NumInst
Lib == {"leaflet", "windy"}
Kinds == {"ScriptLoader", "Hook", "WindyMap", "FrontendHook", "WindyLayer"}

\* The components that call hooks/useWindyInitializer.ts.
UsesHook(k) == k \in {"Hook", "WindyLayer"}

VARIABLES
    scripts,          \* [Inst -> [Lib -> script element created by that instance]]
    windowL,          \* window.L is defined
    windowWindyInit,  \* typeof window.windyInit === 'function'
    inst,             \* [Inst -> state of the view instance]
    apiKey,           \* env.WINDY_API_KEY is configured
    windyApi,         \* the sub-objects the handle given to WindyService has
    store,            \* the key-value store of the handle
    activated,        \* the overlay functions the last method call ran
    changeListeners,  \* WindyService.changeListeners
    dispatch,         \* the notifyListeners call that is running
    markerLayers,     \* the weather and the alert layer group
    tick,             \* flips at every call of a public method
    lastOp,           \* the last public method called or event of the handle
    thrown,           \* an exception escaped a public method of WindyService
    picker,           \* the picker of the handle and the calls it received
    mapView,          \* the MapContainer view over an initialized map
    layersReturned,   \* what the last getAvailableLayers call returned
    caught,           \* flips at every exception notifyListeners catches
    layersHook,       \* a view using useMapLayers or an additional-layers effect
    clicks,           \* a MapContainer whose click handler is set up once
    weather,          \* a WindyMap that is ready and its weatherData input
    panel             \* the WindyControls panels over one WindyService

bootVars == <<scripts, windowL, windowWindyInit, inst>>

serviceVars == <<windyApi, store, activated, changeListeners, dispatch,
                 markerLayers, tick, lastOp, thrown>>

vars == <<scripts, windowL, windowWindyInit, inst, apiKey,
          windyApi, store, activated, changeListeners, dispatch,
          markerLayers, tick, lastOp, thrown, picker, mapView, layersReturned,
          caught, layersHook, clicks, weather, panel>>

viewVars == <<caught, layersHook, clicks, weather, panel>>

NoScript == [st |-> "none", inDoc |-> FALSE, early |-> FALSE]

\* The values a render closes over.
Cur(r) ==
    [leafletScriptLoaded |-> r.leafletScriptLoaded,
     windyScriptLoaded |-> r.windyScriptLoaded,
     isLoading |-> r.isLoading,
     windyInstance |-> r.windyInstance,
     error |-> r.error]

\* The units of defaultOptions and the store key of each.
Units == {"temperature", "wind", "pressure", "distance"}

UnitKey(unit) ==
    CASE unit = "temperature" -> "tempUnit"
      [] unit = "wind" -> "windUnit"
      [] unit = "pressure" -> "pressureUnit"
      [] OTHER -> "distanceUnit"

\* The display options of defaultOptions, which a caller's initialOptions
\* are spread over: units lists the units that are set.
DefaultOptions == [units |-> Units, graticule |-> "true", hourFormat |-> "24h"]

\* The merged options a caller can produce: units given in part or not at
\* all, graticule true, false or undefined, hourFormat set or undefined.
OptionSets ==
    [units : {Units, {"temperature"}, {}},
     graticule : {"true", "false", "undefined"},
     hourFormat : {"24h", "undefined"}]

Unmounted ==
    [kind |-> "none", mounted |-> "no",
     leafletScriptLoaded |-> FALSE, windyScriptLoaded |-> FALSE,
     isLoading |-> FALSE, error |-> "none", windyInstance |-> FALSE,
     initializationAttemptedRef |-> FALSE,
     closure |-> [leafletScriptLoaded |-> FALSE, windyScriptLoaded |-> FALSE,
                  isLoading |-> FALSE, windyInstance |-> FALSE, error |-> "none"],
     initAttemptedRef |-> FALSE, delayedInit |-> FALSE,
     delayedClosure |-> [leafletScriptLoaded |-> FALSE,
                         windyScriptLoaded |-> FALSE, isLoading |-> FALSE,
                         windyInstance |-> FALSE, error |-> "none"],
     effects |-> {},
     pendingInit |-> 0, initCalls |-> 0, handles |-> 0, lastCall |-> "none",
     timers |-> 0, onLoadCalled |-> FALSE, failed |-> FALSE,
     options |-> DefaultOptions, written |-> {}]

\* Effects of a component in declaration order.
EffectOrder(k) ==
    CASE k = "ScriptLoader" -> <<"leaflet", "windy", "notify">>
      [] k = "Hook" -> <<"leaflet", "windy", "init">>
      [] k = "WindyLayer" -> <<"leaflet", "windy", "attempt">>
      [] k = "WindyMap" -> <<"load">>
      [] k = "FrontendHook" -> <<"script">>
      [] OTHER -> <<>>

AllEffects(k) == {EffectOrder(k)[n] : n \in 1..Len(EffectOrder(k))}

\* The first pending effect of instance i, "none" when nothing is pending.
NextEffect(i) ==
    LET ord == EffectOrder(inst[i].kind)
        idx == {n \in 1..Len(ord) : ord[n] \in inst[i].effects}
    IN IF idx = {} THEN "none"
       ELSE ord[CHOOSE n \in idx : \A m \in idx : n <= m]

Ran(r, e) == [r EXCEPT !.effects = r.effects \ {e}]

\* No mounted instance has a render or an effect left to flush: React commits
\* and flushes effects before the browser runs the next task.
Idle ==
    \A j \in Inst :
        inst[j].mounted = "yes" =>
            inst[j].effects = {} /\ Cur(inst[j]) = inst[j].closure

Quiescent(i) == inst[i].mounted = "yes" /\ Idle

\* A handler created by instance i can run (also after i was unmounted).
HandlerReady(i) == inst[i].mounted # "no" /\ Idle

\* The document before any view is mounted.  window.L may already be set
\* by the bundled leaflet import.
InitDocument ==
    /\ scripts = [i \in Inst |-> [l \in Lib |-> NoScript]]
    /\ windowL \in BOOLEAN
    /\ windowWindyInit = FALSE
    /\ inst = [i \in Inst |-> Unmounted]

(***************************************************************************)
(* The document                                                            *)
(***************************************************************************)

\* document.getElementById('<lib>-script') finds an element.
ExistingScript(sc, lib) == \E j \in Inst : sc[j][lib].inDoc

\* document.head.appendChild of a script element created by instance i.
\* early records that the widget script was appended while window.L was absent.
InjectScript(sc, i, lib, baseDone) ==
    [sc EXCEPT ![i][lib] =
        [st |-> "pending", inDoc |-> TRUE, early |-> (lib = "windy" /\ ~baseDone)]]

\* The effect cleanups of the hook: document.head.removeChild of its own tags.
RemoveOwnScripts(sc, i) ==
    [sc EXCEPT ![i] = [l \in Lib |-> [sc[i][l] EXCEPT !.inDoc = FALSE]]]

(***************************************************************************)
(* Mounting, rendering, unmounting                                         *)
(***************************************************************************)

Mount(i, k) ==
    /\ inst[i].mounted = "no"
    /\ \A j \in Inst : j < i => inst[j].mounted # "no"
    /\ Idle
    /\ inst' = [inst EXCEPT ![i] =
                   [Unmounted EXCEPT !.kind = k, !.mounted = "yes",
                                     !.effects = AllEffects(k)]]
    /\ UNCHANGED <<scripts, windowL, windowWindyInit>>
    /\ UNCHANGED <<apiKey, serviceVars, picker, mapView, layersReturned, viewVars>>

\* The effects a commit schedules: those with a changed dependency.
ScheduledEffects(k, old, new) ==
    CASE k = "ScriptLoader" ->
            (IF old.leafletScriptLoaded # new.leafletScriptLoaded
                THEN {"windy"} ELSE {})
            \cup (IF old.leafletScriptLoaded # new.leafletScriptLoaded
                     \/ old.windyScriptLoaded # new.windyScriptLoaded
                     THEN {"notify"} ELSE {})
      [] k = "Hook" ->
            (IF old.leafletScriptLoaded # new.leafletScriptLoaded
                THEN {"windy"} ELSE {})
            \cup {"init"}
      [] k = "WindyLayer" ->
            (IF old.leafletScriptLoaded # new.leafletScriptLoaded
                THEN {"windy"} ELSE {})
            \cup {"attempt"}
      [] k = "FrontendHook" ->
            IF old.windyScriptLoaded # new.windyScriptLoaded
                THEN {"script"} ELSE {}
      [] OTHER -> {}

Render(i) ==
    /\ inst[i].mounted = "yes"
    /\ inst[i].effects = {}
    /\ Cur(inst[i]) # inst[i].closure
    /\ inst' = [inst EXCEPT ![i] =
                   [inst[i] EXCEPT
                       !.closure = Cur(inst[i]),
                       !.effects = ScheduledEffects(inst[i].kind, inst[i].closure,
                                                    Cur(inst[i]))]]
    /\ UNCHANGED <<scripts, windowL, windowWindyInit>>
    /\ UNCHANGED <<apiKey, serviceVars, picker, mapView, layersReturned, viewVars>>

\* A parent re-render hands the ScriptLoader new onLoad / onError functions
\* (or the development double invocation re-runs the effects): every effect
\* that depends on them runs again.
PropsChange(i) ==
    /\ inst[i].kind = "ScriptLoader"
    /\ Quiescent(i)
    /\ inst[i].timers < MaxTimers
    /\ inst' = [inst EXCEPT ![i].effects = AllEffects("ScriptLoader")]
    /\ UNCHANGED <<scripts, windowL, windowWindyInit>>
    /\ UNCHANGED <<apiKey, serviceVars, picker, mapView, layersReturned, viewVars>>

\* React discards the state of an unmounted component; what outlives it are
\* its timers and the callbacks it handed to the scripts and to windyInit.
Discarded(r) ==
    [Unmounted EXCEPT !.kind = r.kind, !.mounted = "gone",
                      !.pendingInit = r.pendingInit, !.initCalls = r.initCalls,
                      !.handles = r.handles, !.timers = r.timers,
                      !.onLoadCalled = r.onLoadCalled]

Unmount(i) ==
    /\ Quiescent(i)
    /\ inst' = [inst EXCEPT ![i] = Discarded(inst[i])]
    /\ scripts' = IF inst[i].kind \in {"Hook", "FrontendHook", "WindyLayer"}
                  THEN RemoveOwnScripts(scripts, i)
                  ELSE scripts
    /\ UNCHANGED <<windowL, windowWindyInit>>
    /\ UNCHANGED <<apiKey, serviceVars, picker, mapView, layersReturned, viewVars>>

(***************************************************************************)
(* ScriptLoader.tsx                                                        *)
(***************************************************************************)

\* A loader that never looks for an existing tag.
NeverRequested(sc) == FALSE

\* The Leaflet tag is already in the document (ScriptLoader, hook, WindyMap).
LeafletAlreadyRequested(sc) == ExistingScript(sc, "leaflet")

\* The Windy tag is already in the document.
WindyAlreadyRequested(sc) == ExistingScript(sc, "windy")

ScriptLoaderLeafletEffect(i) ==
    /\ inst[i].kind = "ScriptLoader"
    /\ inst[i].mounted = "yes"
    /\ NextEffect(i) = "leaflet"
    /\ LET r == Ran(inst[i], "leaflet") IN
       IF windowL \/ LeafletAlreadyRequested(scripts)
       THEN /\ inst' = [inst EXCEPT ![i] = [r EXCEPT !.leafletScriptLoaded = TRUE]]
            /\ UNCHANGED scripts
       ELSE /\ inst' = [inst EXCEPT ![i] = r]
            /\ scripts' = InjectScript(scripts, i, "leaflet", windowL)
    /\ UNCHANGED <<windowL, windowWindyInit>>
    /\ UNCHANGED <<apiKey, serviceVars, picker, mapView, layersReturned, viewVars>>

ScriptLoaderWindyEffect(i) ==
    /\ inst[i].kind = "ScriptLoader"
    /\ inst[i].mounted = "yes"
    /\ NextEffect(i) = "windy"
    /\ LET r == Ran(inst[i], "windy") IN
       IF ~r.closure.leafletScriptLoaded
       THEN /\ inst' = [inst EXCEPT ![i] = r]
            /\ UNCHANGED scripts
       ELSE IF windowWindyInit \/ WindyAlreadyRequested(scripts)
       THEN /\ inst' = [inst EXCEPT ![i] = [r EXCEPT !.windyScriptLoaded = TRUE]]
            /\ UNCHANGED scripts
       ELSE /\ inst' = [inst EXCEPT ![i] = r]
            /\ scripts' = InjectScript(scripts, i, "windy", windowL)
    /\ UNCHANGED <<windowL, windowWindyInit>>
    /\ UNCHANGED <<apiKey, serviceVars, picker, mapView, layersReturned, viewVars>>

ScriptLoaderNotifyEffect(i) ==
    /\ inst[i].kind = "ScriptLoader"
    /\ inst[i].mounted = "yes"
    /\ NextEffect(i) = "notify"
    /\ LET r == Ran(inst[i], "notify") IN
       IF r.closure.leafletScriptLoaded /\ r.closure.windyScriptLoaded
       THEN inst' = [inst EXCEPT ![i] = [r EXCEPT !.timers = r.timers + 1]]
       ELSE inst' = [inst EXCEPT ![i] = r]
    /\ UNCHANGED <<scripts, windowL, windowWindyInit>>
    /\ UNCHANGED <<apiKey, serviceVars, picker, mapView, layersReturned, viewVars>>

\* The 500 ms timer of the notify effect fires; nothing ever clears it.
OnLoadTimer(i) ==
    /\ inst[i].kind = "ScriptLoader"
    /\ inst[i].timers > 0
    /\ inst' = [inst EXCEPT ![i].timers = inst[i].timers - 1,
                            ![i].onLoadCalled = TRUE]
    /\ UNCHANGED <<scripts, windowL, windowWindyInit>>
    /\ UNCHANGED <<apiKey, serviceVars, picker, mapView, layersReturned, viewVars>>

(***************************************************************************)
(* useWindyInitializer.ts                                                  *)
(***************************************************************************)

HookLeafletEffect(i) ==
    /\ UsesHook(inst[i].kind)
    /\ inst[i].mounted = "yes"
    /\ NextEffect(i) = "leaflet"
    /\ LET r == Ran(inst[i], "leaflet") IN
       IF r.closure.leafletScriptLoaded \/ windowL \/ LeafletAlreadyRequested(scripts)
       THEN /\ inst' = [inst EXCEPT ![i] = [r EXCEPT !.leafletScriptLoaded = TRUE]]
            /\ UNCHANGED scripts
       ELSE /\ inst' = [inst EXCEPT ![i] = [r EXCEPT !.isLoading = TRUE]]
            /\ scripts' = InjectScript(scripts, i, "leaflet", windowL)
    /\ UNCHANGED <<windowL, windowWindyInit>>
    /\ UNCHANGED <<apiKey, serviceVars, picker, mapView, layersReturned, viewVars>>

HookWindyEffect(i) ==
    /\ UsesHook(inst[i].kind)
    /\ inst[i].mounted = "yes"
    /\ NextEffect(i) = "windy"
    /\ LET r == Ran(inst[i], "windy") IN
       IF windowWindyInit
       THEN /\ inst' = [inst EXCEPT ![i] = [r EXCEPT !.windyScriptLoaded = TRUE]]
            /\ UNCHANGED scripts
       ELSE IF ~r.closure.leafletScriptLoaded \/ r.closure.windyScriptLoaded
       THEN /\ inst' = [inst EXCEPT ![i] = r]
            /\ UNCHANGED scripts
       ELSE IF WindyAlreadyRequested(scripts)
       THEN /\ inst' = [inst EXCEPT ![i] = [r EXCEPT !.windyScriptLoaded = TRUE]]
            /\ UNCHANGED scripts
       ELSE /\ inst' = [inst EXCEPT ![i] = [r EXCEPT !.isLoading = TRUE]]
            /\ scripts' = InjectScript(scripts, i, "windy", windowL)
    /\ UNCHANGED <<windowL, windowWindyInit>>
    /\ UNCHANGED <<apiKey, serviceVars, picker, mapView, layersReturned, viewVars>>

\* A guard without the in-flight ref.
InitGuardHandleOnly(r) == r.closure.windyInstance

\* A guard without the handle.
InitGuardRefOnly(r) == r.initializationAttemptedRef

\* "Prevent multiple initialization attempts": the in-flight ref, or the
\* handle seen by the closure of the call.
InitGuard(r) == r.initializationAttemptedRef \/ r.closure.windyInstance

\* Both script flags as the closure of the call sees them.
ScriptsReady(r) == r.closure.leafletScriptLoaded /\ r.closure.windyScriptLoaded

\* An initializeWindy whose not-ready branch only returns.
InitializeWindySilent(r, haveInit) ==
    IF r.initializationAttemptedRef \/ r.closure.windyInstance
    THEN [r EXCEPT !.lastCall = "guarded"]
    ELSE IF ~(r.closure.leafletScriptLoaded /\ r.closure.windyScriptLoaded)
    THEN [r EXCEPT !.lastCall = "notready"]
    ELSE IF ~haveInit
    THEN [r EXCEPT !.error = "init", !.failed = TRUE, !.lastCall = "ran",
                   !.initializationAttemptedRef = FALSE, !.isLoading = FALSE]
    ELSE r

\* The record of the instance after initializeWindy returned without calling
\* window.windyInit (guarded, not ready, or windyInit is no function).
InitializeWindyEarly(r, haveInit) ==
    IF InitGuard(r) THEN [r EXCEPT !.lastCall = "guarded"]
    ELSE IF ~ScriptsReady(r)
    THEN [r EXCEPT !.error = "notready", !.lastCall = "notready"]
    ELSE IF ~haveInit
    THEN [r EXCEPT !.error = "init", !.failed = TRUE, !.lastCall = "ran",
                   !.initializationAttemptedRef = FALSE, !.isLoading = FALSE]
    ELSE r

\* initializeWindy reaches the call of window.windyInit.
InitializeWindyInvokes(r, haveInit) ==
    ~InitGuard(r) /\ ScriptsReady(r) /\ haveInit

\* window.windyInit accepted the call: its callback is pending.
InitializeWindyPending(r) ==
    [r EXCEPT !.initializationAttemptedRef = TRUE, !.isLoading = TRUE,
              !.initCalls = r.initCalls + 1, !.pendingInit = r.pendingInit + 1,
              !.lastCall = "ran"]

\* A catch block that forgets the in-flight ref.
InitializeWindyThrewStuck(r) ==
    [r EXCEPT !.initializationAttemptedRef = TRUE, !.isLoading = FALSE,
              !.initCalls = r.initCalls + 1, !.error = "init", !.failed = TRUE,
              !.lastCall = "ran"]

\* window.windyInit threw: the catch block.
InitializeWindyThrew(r) ==
    [r EXCEPT !.initializationAttemptedRef = FALSE, !.isLoading = FALSE,
              !.initCalls = r.initCalls + 1, !.error = "init", !.failed = TRUE,
              !.lastCall = "ran"]

\* One call of initializeWindy on the record r of instance i.
InitializeWindy(i, r) ==
    IF InitializeWindyInvokes(r, windowWindyInit)
    THEN /\ r.initCalls < MaxInitCalls
         /\ \/ inst' = [inst EXCEPT ![i] = InitializeWindyPending(r)]
            \/ inst' = [inst EXCEPT ![i] = InitializeWindyThrew(r)]
    ELSE inst' = [inst EXCEPT ![i] = InitializeWindyEarly(r, windowWindyInit)]

\* MapContainer: "Initialize Windy with the container", run after every render.
MapContainerInitEffect(i) ==
    /\ inst[i].kind = "Hook"
    /\ inst[i].mounted = "yes"
    /\ NextEffect(i) = "init"
    /\ LET r == Ran(inst[i], "init") IN
       IF ~r.closure.windyInstance /\ ~r.closure.isLoading
       THEN InitializeWindy(i, r)
       ELSE inst' = [inst EXCEPT ![i] = r]
    /\ UNCHANGED <<scripts, windowL, windowWindyInit>>
    /\ UNCHANGED <<apiKey, serviceVars, picker, mapView, layersReturned, viewVars>>

\* Any other caller holding the initializeWindy of the current render.
InitializeWindyCall(i) ==
    /\ inst[i].kind = "Hook"
    /\ Quiescent(i)
    /\ InitializeWindy(i, inst[i])
    /\ UNCHANGED <<scripts, windowL, windowWindyInit>>
    /\ UNCHANGED <<apiKey, serviceVars, picker, mapView, layersReturned, viewVars>>

\* WindyLayer: "Initialize Windy when the component mounts".  The effect
\* runs after every render (initializeWindy is a new function each time)
\* but acts once: it sets initAttemptedRef and starts the one-second timer,
\* whose callback holds the initializeWindy of this render.  The container
\* with id 'windy' is in the document.
WindyLayerInitEffect(i) ==
    /\ inst[i].kind = "WindyLayer"
    /\ inst[i].mounted = "yes"
    /\ NextEffect(i) = "attempt"
    /\ LET r == Ran(inst[i], "attempt") IN
       inst' = [inst EXCEPT ![i] =
                   IF r.initAttemptedRef THEN r
                   ELSE [r EXCEPT !.initAttemptedRef = TRUE,
                                  !.delayedInit = TRUE,
                                  !.delayedClosure = r.closure]]
    /\ UNCHANGED <<scripts, windowL, windowWindyInit>>
    /\ UNCHANGED <<apiKey, serviceVars, picker, mapView, layersReturned, viewVars>>

\* The one-second timer of WindyLayer fires: initializeWindy is called as
\* the closure the timer holds; the promise it returns is never rejected,
\* so the catch that resets initAttemptedRef does not run.
WindyLayerTimer(i) ==
    /\ inst[i].kind = "WindyLayer"
    /\ inst[i].delayedInit
    /\ Quiescent(i)
    /\ LET r == [inst[i] EXCEPT !.delayedInit = FALSE,
                                !.closure = inst[i].delayedClosure] IN
       IF InitializeWindyInvokes(r, windowWindyInit)
       THEN /\ r.initCalls < MaxInitCalls
            /\ \/ inst' = [inst EXCEPT ![i] =
                              [InitializeWindyPending(r)
                                  EXCEPT !.closure = inst[i].closure]]
               \/ inst' = [inst EXCEPT ![i] =
                              [InitializeWindyThrew(r)
                                  EXCEPT !.closure = inst[i].closure]]
       ELSE inst' = [inst EXCEPT ![i] =
                        [InitializeWindyEarly(r, windowWindyInit)
                            EXCEPT !.closure = inst[i].closure]]
    /\ UNCHANGED <<scripts, windowL, windowWindyInit>>
    /\ UNCHANGED <<apiKey, serviceVars, picker, mapView, layersReturned, viewVars>>

\* A callback that writes the units and leaves graticule and hour format.
UnitsWritten(options) == {UnitKey(unit) : unit \in options.units}

\* The store keys the callback writes before it publishes the handle: one
\* per unit that is set, graticule unless undefined, hourFormat when set.
ConfigurationWritten(options) ==
    {UnitKey(unit) : unit \in options.units}
       \cup (IF options.graticule # "undefined" THEN {"graticule"} ELSE {})
       \cup (IF options.hourFormat # "undefined" THEN {"hourFormat"} ELSE {})

\* The callback given to window.windyInit runs with the handle, for a call
\* that was made with the given merged options.
WindyInitCallbackWith(i, options) ==
    /\ UsesHook(inst[i].kind)
    /\ inst[i].pendingInit > 0
    /\ HandlerReady(i)
    /\ LET r == [inst[i] EXCEPT !.pendingInit = inst[i].pendingInit - 1,
                                !.handles = inst[i].handles + 1,
                                !.options = options,
                                !.written = ConfigurationWritten(options)] IN
       inst' = [inst EXCEPT ![i] =
                   IF r.mounted = "yes"
                   THEN [r EXCEPT !.windyInstance = TRUE, !.isLoading = FALSE,
                                  !.initializationAttemptedRef = FALSE,
                                  !.lastCall = "ran"]
                   ELSE r]
    /\ UNCHANGED <<scripts, windowL, windowWindyInit>>
    /\ UNCHANGED <<apiKey, serviceVars, picker, mapView, layersReturned, viewVars>>

\* The callback of a call made by MapContainer, whose initialOptions leave
\* the units of defaultOptions and set graticule and hourFormat.
WindyInitCallback(i) == WindyInitCallbackWith(i, DefaultOptions)

\* The callback of a call made with any merged options.
WindyInitCallbackAny(i) ==
    \E options \in OptionSets : WindyInitCallbackWith(i, options)

(***************************************************************************)
(* WindyMap.js                                                             *)
(***************************************************************************)

\* initializeWindyMap: the container ref is null once the view is unmounted;
\* an exception of window.windyInit is caught by nobody.
InitializeWindyMap(i, r, haveInit) ==
    IF r.mounted # "yes" \/ r.windyInstance \/ ~haveInit
    THEN inst' = [inst EXCEPT ![i] = r]
    ELSE /\ r.initCalls < MaxInitCalls
         /\ \/ inst' = [inst EXCEPT ![i] =
                           [r EXCEPT !.initCalls = r.initCalls + 1,
                                     !.pendingInit = r.pendingInit + 1]]
            \/ inst' = [inst EXCEPT ![i] =
                           [r EXCEPT !.initCalls = r.initCalls + 1,
                                     !.failed = TRUE]]

\* loadWindyAPI, called with scripts sc and window.windyInit as they are then.
LoadWindyAPI(i, r, sc, haveL, haveInit) ==
    IF haveInit
    THEN /\ InitializeWindyMap(i, r, haveInit)
         /\ scripts' = sc
    ELSE IF WindyAlreadyRequested(sc)
    THEN /\ inst' = [inst EXCEPT ![i] = r]
         /\ scripts' = sc
    ELSE /\ inst' = [inst EXCEPT ![i] = r]
         /\ scripts' = InjectScript(sc, i, "windy", haveL)

WindyMapLoadEffect(i) ==
    /\ inst[i].kind = "WindyMap"
    /\ inst[i].mounted = "yes"
    /\ NextEffect(i) = "load"
    /\ LET r == Ran(inst[i], "load") IN
       IF windowL
       THEN LoadWindyAPI(i, r, scripts, windowL, windowWindyInit)
       ELSE IF LeafletAlreadyRequested(scripts)
       THEN /\ inst' = [inst EXCEPT ![i] = r]
            /\ UNCHANGED scripts
       ELSE /\ inst' = [inst EXCEPT ![i] = r]
            /\ scripts' = InjectScript(scripts, i, "leaflet", windowL)
    /\ UNCHANGED <<windowL, windowWindyInit>>
    /\ UNCHANGED <<apiKey, serviceVars, picker, mapView, layersReturned, viewVars>>

\* The windyInit callback of WindyMap: windyInstanceRef.current and mapReady.
WindyMapInitCallback(i) ==
    /\ inst[i].kind = "WindyMap"
    /\ inst[i].pendingInit > 0
    /\ HandlerReady(i)
    /\ LET r == [inst[i] EXCEPT !.pendingInit = inst[i].pendingInit - 1,
                                !.handles = inst[i].handles + 1] IN
       inst' = [inst EXCEPT ![i] =
                   IF r.mounted = "yes" THEN [r EXCEPT !.windyInstance = TRUE]
                   ELSE r]
    /\ UNCHANGED <<scripts, windowL, windowWindyInit>>
    /\ UNCHANGED <<apiKey, serviceVars, picker, mapView, layersReturned, viewVars>>

(***************************************************************************)
(* useWindyInitializer of the frontend application                         *)
(***************************************************************************)

\* "Load Windy API script": the cleanup of the previous run removes its tag;
\* the tag has no id and no existing tag is looked for.
FrontendScriptEffect(i) ==
    /\ inst[i].kind = "FrontendHook"
    /\ inst[i].mounted = "yes"
    /\ NextEffect(i) = "script"
    /\ LET r == Ran(inst[i], "script")
           sc == RemoveOwnScripts(scripts, i) IN
       IF ~r.closure.windyScriptLoaded /\ apiKey
       THEN /\ inst' = [inst EXCEPT ![i] = [r EXCEPT !.isLoading = TRUE]]
            /\ scripts' = InjectScript(sc, i, "windy", windowL)
       ELSE /\ inst' = [inst EXCEPT ![i] = r]
            /\ scripts' = sc
    /\ UNCHANGED <<windowL, windowWindyInit>>
    /\ UNCHANGED <<apiKey, serviceVars, picker, mapView, layersReturned, viewVars>>

\* initializeWindy of the frontend hook returns before window.windyInit:
\* script not loaded, or no key.
FrontendInitializeEarly(r, key) ==
    IF ~r.closure.windyScriptLoaded
    THEN [r EXCEPT !.error = "notready", !.lastCall = "notready"]
    ELSE IF ~key
    THEN [r EXCEPT !.error = "nokey", !.lastCall = "nokey"]
    ELSE r

\* One call of the frontend initializeWindy on the record r of instance i:
\* the awaited window.windyInit throws at once or returns a pending promise.
FrontendInitializeWindy(i, r) ==
    IF ~r.closure.windyScriptLoaded \/ ~apiKey
    THEN inst' = [inst EXCEPT ![i] = FrontendInitializeEarly(r, apiKey)]
    ELSE IF ~windowWindyInit
    THEN inst' = [inst EXCEPT ![i] =
                     [r EXCEPT !.error = "init", !.failed = TRUE,
                               !.isLoading = FALSE, !.lastCall = "ran"]]
    ELSE /\ r.initCalls < MaxInitCalls
         /\ \/ inst' = [inst EXCEPT ![i] =
                           [r EXCEPT !.isLoading = TRUE,
                                     !.initCalls = r.initCalls + 1,
                                     !.pendingInit = r.pendingInit + 1,
                                     !.lastCall = "ran"]]
            \/ inst' = [inst EXCEPT ![i] =
                           [r EXCEPT !.isLoading = FALSE,
                                     !.initCalls = r.initCalls + 1,
                                     !.error = "init", !.failed = TRUE,
                                     !.lastCall = "ran"]]

\* A caller holding the initializeWindy of the current render calls it.
FrontendInitializeWindyCall(i) ==
    /\ inst[i].kind = "FrontendHook"
    /\ Quiescent(i)
    /\ FrontendInitializeWindy(i, inst[i])
    /\ UNCHANGED <<scripts, windowL, windowWindyInit>>
    /\ UNCHANGED <<apiKey, serviceVars, picker, mapView, layersReturned, viewVars>>

\* The promise of window.windyInit resolves with the handle.
FrontendInitResolved(i) ==
    /\ inst[i].kind = "FrontendHook"
    /\ inst[i].pendingInit > 0
    /\ HandlerReady(i)
    /\ LET r == [inst[i] EXCEPT !.pendingInit = inst[i].pendingInit - 1,
                                !.handles = inst[i].handles + 1] IN
       inst' = [inst EXCEPT ![i] =
                   IF r.mounted = "yes"
                   THEN [r EXCEPT !.windyInstance = TRUE, !.isLoading = FALSE]
                   ELSE r]
    /\ UNCHANGED <<scripts, windowL, windowWindyInit>>
    /\ UNCHANGED <<apiKey, serviceVars, picker, mapView, layersReturned, viewVars>>

\* The promise of window.windyInit rejects: the catch block.
FrontendInitRejected(i) ==
    /\ inst[i].kind = "FrontendHook"
    /\ inst[i].pendingInit > 0
    /\ HandlerReady(i)
    /\ LET r == [inst[i] EXCEPT !.pendingInit = inst[i].pendingInit - 1] IN
       inst' = [inst EXCEPT ![i] =
                   IF r.mounted = "yes"
                   THEN [r EXCEPT !.error = "init", !.failed = TRUE,
                                  !.isLoading = FALSE]
                   ELSE r]
    /\ UNCHANGED <<scripts, windowL, windowWindyInit>>
    /\ UNCHANGED <<apiKey, serviceVars, picker, mapView, layersReturned, viewVars>>

(***************************************************************************)
(* Script load events                                                      *)
(***************************************************************************)

SetStatus(sc, j, lib, st) == [sc EXCEPT ![j][lib].st = st]

\* The flag an onload handler sets (setLeafletLoaded / setWindyLoaded ...).
Loaded(r, lib) ==
    IF lib = "leaflet" THEN [r EXCEPT !.leafletScriptLoaded = TRUE]
    ELSE [r EXCEPT !.windyScriptLoaded = TRUE]

\* onload of the hook: the flag and setIsLoading(false); a no-op once unmounted.
HookOnLoad(r, lib) ==
    IF r.mounted = "yes" THEN [Loaded(r, lib) EXCEPT !.isLoading = FALSE] ELSE r

\* onerror of the hook: setError and setIsLoading(false).
HookOnError(r, lib) ==
    IF r.mounted = "yes"
    THEN [r EXCEPT !.error = lib, !.isLoading = FALSE, !.failed = TRUE]
    ELSE r

\* onload of the ScriptLoader.
ScriptLoaderOnLoad(r, lib) ==
    IF r.mounted = "yes" THEN Loaded(r, lib) ELSE r

\* onerror of the ScriptLoader: the onError prop is called.
ScriptLoaderOnError(r, lib) ==
    IF r.mounted = "yes" THEN [r EXCEPT !.error = lib, !.failed = TRUE] ELSE r

\* onerror of WindyMap: console.error only.
WindyMapOnError(r, lib) ==
    IF r.mounted = "yes" THEN [r EXCEPT !.failed = TRUE] ELSE r

\* The script that instance j appended finishes loading and runs.
ScriptLoad(j, lib) ==
    /\ scripts[j][lib].st = "pending"
    /\ HandlerReady(j)
    /\ windowL' = (windowL \/ lib = "leaflet")
    /\ windowWindyInit' = (windowWindyInit \/ lib = "windy")
    /\ LET sc == SetStatus(scripts, j, lib, "loaded") IN
       CASE inst[j].kind = "ScriptLoader" ->
               /\ inst' = [inst EXCEPT ![j] = ScriptLoaderOnLoad(inst[j], lib)]
               /\ scripts' = sc
         [] inst[j].kind \in {"Hook", "FrontendHook", "WindyLayer"} ->
               /\ inst' = [inst EXCEPT ![j] = HookOnLoad(inst[j], lib)]
               /\ scripts' = sc
         [] inst[j].kind = "WindyMap" ->
               IF lib = "leaflet"
               THEN LoadWindyAPI(j, inst[j], sc, TRUE, windowWindyInit)
               ELSE /\ InitializeWindyMap(j, inst[j], TRUE)
                    /\ scripts' = sc
    /\ UNCHANGED <<apiKey, serviceVars, picker, mapView, layersReturned, viewVars>>

\* The script that instance j appended fails to load.
ScriptError(j, lib) ==
    /\ scripts[j][lib].st = "pending"
    /\ HandlerReady(j)
    /\ scripts' = SetStatus(scripts, j, lib, "failed")
    /\ inst' = [inst EXCEPT ![j] =
                   CASE inst[j].kind = "ScriptLoader" -> ScriptLoaderOnError(inst[j], lib)
                     [] inst[j].kind \in {"Hook", "FrontendHook", "WindyLayer"} ->
                            HookOnError(inst[j], lib)
                     [] OTHER -> WindyMapOnError(inst[j], lib)]
    /\ UNCHANGED <<windowL, windowWindyInit>>
    /\ UNCHANGED <<apiKey, serviceVars, picker, mapView, layersReturned, viewVars>>

(***************************************************************************)
(* windyService.ts: WindyService over a handle                             *)
(***************************************************************************)

\* Number of distinct listener functions a caller can register.
NumListeners == 2
\* Cap on the length of WindyService.changeListeners.
MaxListenerList == 2
\* Number of distinct data points a caller can pass to the marker methods.
NumPoints == 2
\* Cap on the length of the point lists passed to the marker methods.
MaxPoints == 1

Listener == 1..NumListeners

\* The largest number of handlers subscribed to the picker.
MaxPickerHandlers == 2

\* The coordinates given to openPicker.
Latitudes == {10, 51}
Longitudes == {0, 106}

Points == 1..NumPoints

\* The lists of points a caller passes (a point may occur twice).
PointLists == UNION {[1..n -> Points] : n \in 0..MaxPoints}

\* getAvailableLayers(): the ids, and the overlay function of each id.
Catalog == {"wind", "temp", "clouds", "pressure", "rainClouds"}

OverlayFunction(id) == id

\* The ids a caller passes: two of the catalog and an id outside it.
LayerIds == {"wind", "temp", "invalid-layer"}

Levels == {"surface", "850h"}

Timestamps == {0, 1}

\* No notifyListeners call is running.
NoDispatch == [event |-> "none", queue |-> <<>>, next |-> <<>>]

\* The two layer groups the constructor creates and adds to the map when the
\* handle has one; markers lists the points of the markers in the group.
NewLayers(haveMap) ==
    [g \in {"weather", "alert"} |->
        [exists |-> haveMap, onMap |-> IF haveMap THEN 1 ELSE 0,
         markers |-> <<>>]]

\* The zoom levels of the map: the threshold of the detailed imagery, the
\* level above it, and the default zoom of the map configuration.
ZoomThreshold == 11
InitialZoom == 13
Zooms == {ZoomThreshold, ZoomThreshold + 1, InitialZoom}

\* The closures of checkZoomAndToggleBackupLayer in their order of
\* subscription, each named by the isBackupLayerActive it captured; a
\* closure equal to one already subscribed is behind it and is not listed
\* again.
Subscribe(closures, c) ==
    IF \E n \in 1..Len(closures) : closures[n] = c
    THEN closures ELSE Append(closures, c)

\* MapContainer at the render in which windyInstance and leafletMap are set
\* and after the effects of that render: the click listener, the delayed
\* first check, the store, zoomend and moveend subscriptions, the poll and
\* the broadcaster subscriptions, all with the closure of that render.
NewMapView(zoom) ==
    [mounted |-> TRUE,
     markersRef |-> <<>>, bufferLayerRef |-> <<>>,
     mapMarkers |-> <<>>, mapBuffers |-> <<>>, distance |-> 0,
     zoom |-> zoom,
     currentZoom |-> 0, isBackupLayerActive |-> FALSE,
     rendered |-> [currentZoom |-> 0, isBackupLayerActive |-> FALSE],
     backupLayerRef |-> FALSE, constructed |-> 0, layerOnMap |-> 0,
     throttled |-> FALSE,
     timeouts |-> {FALSE}, young |-> {},
     storeListeners |-> <<FALSE>>,
     broadcastListeners |-> <<FALSE>>,
     pending |-> {},
     ran |-> "none"]

\* The views of the later sections before anything has happened to them.
\* Layer controls are told apart by age: 0 is the control created last,
\* NoControl is null; controls of age MaxAge or more are one.
MaxAge == 3
NoControl == -1
NoCleanup == -2

\* The view of one of the three layer-control effects over an available
\* map, at its mount commit: layers is the length of additionalLayers,
\* visible says that one of them is visible, layerControl is the state (or
\* the ref) that holds the control, rendered and cleanup are the values the
\* closure of the last render and the cleanup of the last effect run hold,
\* onMap the controls attached to the map.
NewLayersHook ==
    [variant |-> "useMapLayers", mounted |-> TRUE,
     layers |-> 0, visible |-> FALSE,
     layerControl |-> NoControl, rendered |-> NoControl,
     cleanup |-> NoCleanup, onMap |-> {},
     dirty |-> FALSE, inputChanged |-> FALSE, effectPending |-> TRUE,
     ran |-> "mount"]

\* A MapContainer that sets its click handler up once, before its map is
\* ready: ready says that the map is displayed, registered that a click
\* handler is on the map, seesMap that the `map` of the handler's closure is
\* the map, markers and buffers what the handler has put on the map, tick
\* flips at every click.
NewClicks ==
    [variant |-> "reactLeaflet", ready |-> FALSE, registered |-> FALSE,
     seesMap |-> FALSE, markers |-> <<>>, buffers |-> <<>>,
     bufferLayer |-> <<>>, distance |-> -1, tick |-> FALSE, ran |-> "none"]

\* A mounted WindyMap: weatherData is the input of the last render,
\* firstData the input of the first render, which the windyInit callback
\* closes over, markers the content of the weather marker layer,
\* overlayOnMap says that the overlay marker layer is on the map.
NewWeather ==
    [mapReady |-> FALSE, weatherData |-> <<>>, firstData |-> <<>>,
     markers |-> <<>>, effectPending |-> FALSE,
     overlayVisible |-> TRUE, overlayOnMap |-> FALSE, ran |-> "none"]

\* The WindyControls panel of a WindyService: mounts counts the runs of
\* its change-listener effect, each of which makes a new listener function.
NewPanel == [mounted |-> FALSE, mounts |-> 0, ran |-> "none"]

InitViews ==
    /\ caught = FALSE
    /\ layersHook = NewLayersHook
    /\ clicks = NewClicks
    /\ weather = NewWeather
    /\ panel = NewPanel

\* A handle with a picker that has received no call: opened lists the
\* arguments of the picker.open calls of the last method call, handlers the
\* functions subscribed to 'pickerOpened'.
NoPicker == [present |-> TRUE, opened |-> <<>>, handlers |-> <<>>]

NoService ==
    /\ windyApi = [store |-> TRUE, overlays |-> TRUE, registry |-> {"wind"},
                   map |-> TRUE, subscribed |-> TRUE]
    /\ store = [overlay |-> "wind", level |-> "surface", timestamp |-> 0]
    /\ activated = <<>>
    /\ changeListeners = <<>>
    /\ dispatch = NoDispatch
    /\ markerLayers = NewLayers(TRUE)
    /\ tick = FALSE
    /\ lastOp = "none"
    /\ thrown = FALSE
    /\ picker = NoPicker
    /\ mapView = NewMapView(InitialZoom)
    /\ layersReturned = <<>>
    /\ InitViews

\* The handles over which new WindyService(windyApi, options) returns: any of
\* the sub-objects may be missing; subscribed says that
\* setupBroadcastListeners registered its subscriptions (map and broadcast
\* present), which throws out of the constructor when the store is missing.
Handles ==
    {a \in [store : BOOLEAN, overlays : BOOLEAN, registry : {{}, {"wind"}},
            map : BOOLEAN, subscribed : BOOLEAN] :
        /\ a.subscribed => a.store /\ a.map
        /\ ~a.overlays => a.registry = {}}

InitService ==
    /\ InitDocument
    /\ windowL = FALSE
    /\ apiKey = TRUE
    /\ windyApi \in Handles
    /\ store = [overlay |-> "wind", level |-> "surface", timestamp |-> 0]
    /\ activated = <<>>
    /\ changeListeners = <<>>
    /\ dispatch = NoDispatch
    /\ markerLayers = NewLayers(windyApi.map)
    /\ tick = FALSE
    /\ lastOp = "none"
    /\ thrown = FALSE
    /\ picker = NoPicker
    /\ mapView = NewMapView(InitialZoom)
    /\ layersReturned = <<>>
    /\ InitViews

\* The listener occurs in the list.
Registered(ls, l) == \E n \in 1..Len(ls) : ls[n] = l

\* notifyListeners(event, ...) for each event of a sequence in turn: forEach
\* runs over the array that is the list when the call starts.
NotifyListeners(ls, events) ==
    IF events = <<>> \/ ls = <<>> THEN NoDispatch
    ELSE [event |-> Head(events), queue |-> ls, next |-> Tail(events)]

\* The events the store delivers to the adapter's subscriptions when key is
\* set to a new value.
StoreEvents(key, old, new) ==
    IF windyApi.subscribed /\ old # new THEN <<key>> ELSE <<>>

\* A broadcast event passed on under the handle's own name for it.
RawEvent(raw) == raw

\* The name under which a broadcast event of the handle is passed on.
BroadcastEvent(raw) == IF raw = "redrawFinished" THEN "redraw" ELSE "params"

\* The layer setActiveLayer finds in the catalog.
FindLayer(layerId) == layerId \in Catalog

\* A public method is called: no dispatch is running; tick tells the call
\* from no call at all.
MethodCall(method) ==
    /\ dispatch = NoDispatch
    /\ tick' = ~tick
    /\ lastOp' = method
    /\ thrown' = FALSE
    /\ UNCHANGED windyApi

\* setActiveLayer writes the store before it looks the layer up; activated
\* lists the overlay functions this call ran.
SetActiveLayer(layerId) ==
    /\ MethodCall("setActiveLayer")
    /\ UNCHANGED <<changeListeners, markerLayers>>
    /\ IF ~windyApi.store
       THEN \* TypeError on store.set, caught and logged
            /\ activated' = <<>>
            /\ UNCHANGED <<store, dispatch>>
       ELSE /\ store' = [store EXCEPT !.overlay = layerId]
            /\ LET ev == StoreEvents("overlay", store.overlay, layerId) IN
               IF FindLayer(layerId) /\ ~windyApi.overlays
               THEN \* TypeError on overlays[...], caught and logged
                    /\ dispatch' = NotifyListeners(changeListeners, ev)
                    /\ activated' = <<>>
               ELSE IF FindLayer(layerId)
                       /\ OverlayFunction(layerId) \in windyApi.registry
               THEN /\ activated' = <<OverlayFunction(layerId)>>
                    /\ \/ dispatch' = NotifyListeners(changeListeners,
                                                      ev \o <<"layerChange">>)
                       \/ \* the overlay function threw: caught and logged
                          dispatch' = NotifyListeners(changeListeners, ev)
               ELSE /\ dispatch' = NotifyListeners(changeListeners,
                                                   ev \o <<"layerChange">>)
                    /\ activated' = <<>>
    /\ UNCHANGED <<apiKey, bootVars, picker, mapView, layersReturned, viewVars>>

SetAltitudeLevel(level) ==
    /\ MethodCall("setAltitudeLevel")
    /\ activated' = <<>>
    /\ UNCHANGED <<changeListeners, markerLayers>>
    /\ IF ~windyApi.store
       THEN UNCHANGED <<store, dispatch>>
       ELSE /\ store' = [store EXCEPT !.level = level]
            /\ dispatch' = NotifyListeners(changeListeners,
                               StoreEvents("level", store.level, level)
                               \o <<"levelChange">>)
    /\ UNCHANGED <<apiKey, bootVars, picker, mapView, layersReturned, viewVars>>

SetForecastTime(timestamp) ==
    /\ MethodCall("setForecastTime")
    /\ activated' = <<>>
    /\ UNCHANGED <<changeListeners, markerLayers>>
    /\ IF ~windyApi.store
       THEN UNCHANGED <<store, dispatch>>
       ELSE /\ store' = [store EXCEPT !.timestamp = timestamp]
            /\ dispatch' = NotifyListeners(changeListeners, <<"timeChange">>)
    /\ UNCHANGED <<apiKey, bootVars, picker, mapView, layersReturned, viewVars>>

AddChangeListener(l) ==
    /\ MethodCall("addChangeListener")
    /\ Len(changeListeners) < MaxListenerList
    /\ changeListeners' = Append(changeListeners, l)
    /\ activated' = <<>>
    /\ UNCHANGED <<store, dispatch, markerLayers>>
    /\ UNCHANGED <<apiKey, bootVars, picker, mapView, layersReturned, viewVars>>

\* changeListeners.filter(cb => cb !== callback): a new array.
WithoutListener(ls, l) == SelectSeq(ls, LAMBDA cb : cb # l)

RemoveChangeListener(l) ==
    /\ MethodCall("removeChangeListener")
    /\ changeListeners' = WithoutListener(changeListeners, l)
    /\ activated' = <<>>
    /\ UNCHANGED <<store, dispatch, markerLayers>>
    /\ UNCHANGED <<apiKey, bootVars, picker, mapView, layersReturned, viewVars>>

\* The dispatch after the listener at the head of the queue has run: the
\* next listener of the same array, or the next event of the running method
\* over the list as it is then.
AfterListener(ls) ==
    IF Len(dispatch.queue) > 1
    THEN [dispatch EXCEPT !.queue = Tail(dispatch.queue)]
    ELSE NotifyListeners(ls, dispatch.next)

\* forEach calls the next listener, which returns (or throws, which is
\* caught and logged).
ListenerRuns ==
    /\ dispatch # NoDispatch
    /\ dispatch' = AfterListener(changeListeners)
    /\ UNCHANGED <<windyApi, store, activated, changeListeners, markerLayers,
                   tick, lastOp, thrown>>
    /\ UNCHANGED <<apiKey, bootVars, picker, mapView, layersReturned, viewVars>>

\* A notifyListeners whose try is around the whole forEach: the exception
\* of a listener ends the dispatch and reaches the caller.
ListenerThrewUncaught(ls) == [dispatch |-> NoDispatch, thrown |-> TRUE]

\* The listener called by forEach threw: the catch inside the loop body
\* (lines 118-122) logs the error and forEach goes on as after a return.
ListenerThrew(ls) == [dispatch |-> AfterListener(ls), thrown |-> thrown]

\* forEach calls the next listener, which throws.
ListenerThrows ==
    /\ dispatch # NoDispatch
    /\ LET after == ListenerThrew(changeListeners) IN
       /\ dispatch' = after.dispatch
       /\ thrown' = after.thrown
    /\ caught' = ~caught
    /\ UNCHANGED <<windyApi, store, activated, changeListeners, markerLayers,
                   tick, lastOp>>
    /\ UNCHANGED <<apiKey, bootVars, picker, mapView, layersReturned,
                   layersHook, clicks, weather, panel>>

\* forEach calls the next listener, which calls removeChangeListener(l).
ListenerRemoves(l) ==
    /\ dispatch # NoDispatch
    /\ Registered(changeListeners, l)
    /\ changeListeners' = WithoutListener(changeListeners, l)
    /\ dispatch' = AfterListener(changeListeners')
    /\ UNCHANGED <<windyApi, store, activated, markerLayers, tick, lastOp,
                   thrown>>
    /\ UNCHANGED <<apiKey, bootVars, picker, mapView, layersReturned, viewVars>>

\* The handle fires 'redrawFinished' or 'paramsChanged' on its broadcaster.
BroadcastFires(raw) ==
    /\ dispatch = NoDispatch
    /\ windyApi.subscribed
    /\ dispatch' = NotifyListeners(changeListeners, <<BroadcastEvent(raw)>>)
    /\ lastOp' = raw
    /\ UNCHANGED <<windyApi, store, activated, changeListeners, markerLayers,
                   tick, thrown>>
    /\ UNCHANGED <<apiKey, bootVars, picker, mapView, layersReturned, viewVars>>

\* The widget itself (its own controls) changes the overlay of the store.
WidgetSetsOverlay(layerId) ==
    /\ dispatch = NoDispatch
    /\ windyApi.store
    /\ store.overlay # layerId
    /\ store' = [store EXCEPT !.overlay = layerId]
    /\ dispatch' = NotifyListeners(changeListeners,
                                   StoreEvents("overlay", store.overlay, layerId))
    /\ lastOp' = "widget"
    /\ UNCHANGED <<windyApi, activated, changeListeners, markerLayers,
                   tick, thrown>>
    /\ UNCHANGED <<apiKey, bootVars, picker, mapView, layersReturned, viewVars>>

\* A marker method that adds to the group without clearing it.
NotCleared(group, points) == [group EXCEPT !.markers = group.markers \o points]

\* clearLayers, then one marker per point added to the group.
Repopulated(group, points) == [group EXCEPT !.markers = points]

\* A marker method that repopulates every layer group, not only its own.
AddMarkersToAll(g, points) ==
    [h \in {"weather", "alert"} |->
        IF markerLayers[h].exists
        THEN Repopulated(markerLayers[h], points)
        ELSE markerLayers[h]]

\* The body of addWeatherMarkers / addOverlayMarkers on layer group g.
AddMarkers(g, points) ==
    IF ~windyApi.map \/ ~markerLayers[g].exists
    THEN markerLayers
    ELSE [markerLayers EXCEPT ![g] = Repopulated(markerLayers[g], points)]

AddWeatherMarkers(points) ==
    /\ MethodCall("addWeatherMarkers")
    /\ markerLayers' = AddMarkers("weather", points)
    /\ activated' = <<>>
    /\ UNCHANGED <<store, changeListeners, dispatch>>
    /\ UNCHANGED <<apiKey, bootVars, picker, mapView, layersReturned, viewVars>>

AddOverlayMarkers(points) ==
    /\ MethodCall("addOverlayMarkers")
    /\ markerLayers' = AddMarkers("alert", points)
    /\ activated' = <<>>
    /\ UNCHANGED <<store, changeListeners, dispatch>>
    /\ UNCHANGED <<apiKey, bootVars, picker, mapView, layersReturned, viewVars>>

\* A show that adds the group to the map whether it is there or not.
ShownAgain(group, visible) ==
    IF visible THEN [group EXCEPT !.onMap = group.onMap + 1]
    ELSE [group EXCEPT !.onMap = 0]

\* The group after toggleOverlayVisibility: addTo only when the map does not
\* have the layer, removeLayer otherwise; onMap counts the addTo calls since
\* the group was last off the map.
Toggled(group, visible) ==
    IF visible
    THEN IF group.onMap = 0 THEN [group EXCEPT !.onMap = 1] ELSE group
    ELSE [group EXCEPT !.onMap = 0]

ToggleOverlayVisibility(visible) ==
    /\ MethodCall("toggleOverlayVisibility")
    /\ markerLayers' =
          IF ~windyApi.map \/ ~markerLayers["alert"].exists
          THEN markerLayers
          ELSE [markerLayers EXCEPT !["alert"] =
                   Toggled(markerLayers["alert"], visible)]
    /\ activated' = <<>>
    /\ UNCHANGED <<store, changeListeners, dispatch>>
    /\ UNCHANGED <<apiKey, bootVars, picker, mapView, layersReturned, viewVars>>

\* A cleanup that keeps the listener list.
ListenersKept(ls) == ls

\* The listener list after cleanup.
ListenersCleared(ls) == <<>>

\* cleanup(): clearLayers on both groups and an empty listener list.
Cleanup ==
    /\ MethodCall("cleanup")
    /\ markerLayers' =
          [g \in {"weather", "alert"} |->
              IF markerLayers[g].exists
              THEN [markerLayers[g] EXCEPT !.markers = <<>>]
              ELSE markerLayers[g]]
    /\ changeListeners' = ListenersCleared(changeListeners)
    /\ activated' = <<>>
    /\ UNCHANGED <<store, dispatch>>
    /\ UNCHANGED <<apiKey, bootVars, picker, mapView, layersReturned, viewVars>>

\* The picker.open argument with latitude and longitude exchanged.
SwappedPosition(lat, lon) == [lat |-> lon, lon |-> lat]

\* The object literal { lat, lon } that openPicker passes to picker.open.
PickerPosition(lat, lon) == [lat |-> lat, lon |-> lon]

\* openPicker(lat, lon): picker.open on a handle with a picker, a warning
\* otherwise.
OpenPicker(lat, lon) ==
    /\ MethodCall("openPicker")
    /\ picker' = IF picker.present
                 THEN [picker EXCEPT !.opened = <<PickerPosition(lat, lon)>>]
                 ELSE [picker EXCEPT !.opened = <<>>]
    /\ activated' = <<>>
    /\ UNCHANGED <<store, changeListeners, dispatch, markerLayers>>
    /\ UNCHANGED <<apiKey, bootVars, mapView, layersReturned, viewVars>>

\* picker.on('pickerOpened', callback) adds the callback to the handlers.
Subscribed(handlers, callback) == Append(handlers, callback)

\* registerPickerEvents(callback).
RegisterPickerEvents(callback) ==
    /\ MethodCall("registerPickerEvents")
    /\ Len(picker.handlers) < MaxPickerHandlers
    /\ picker' = IF picker.present
                 THEN [picker EXCEPT !.opened = <<>>,
                         !.handlers = Subscribed(picker.handlers, callback)]
                 ELSE [picker EXCEPT !.opened = <<>>]
    /\ activated' = <<>>
    /\ UNCHANGED <<store, changeListeners, dispatch, markerLayers>>
    /\ UNCHANGED <<apiKey, bootVars, mapView, layersReturned, viewVars>>

\* A catalog in which the id of the temperature layer occurs twice.
DuplicateIdLayers(api) ==
    << [id |-> "wind", name |-> "Wind Layer", overlayFunction |-> "wind"],
       [id |-> "temp", name |-> "Temperature", overlayFunction |-> "temp"],
       [id |-> "temp", name |-> "Clouds", overlayFunction |-> "clouds"],
       [id |-> "pressure", name |-> "Pressure", overlayFunction |-> "pressure"],
       [id |-> "rainClouds", name |-> "Rain & Clouds",
        overlayFunction |-> "rainClouds"] >>

\* The array literal getAvailableLayers returns; the handle api of the
\* service is not read.
AvailableLayers(api) ==
    << [id |-> "wind", name |-> "Wind Layer", overlayFunction |-> "wind"],
       [id |-> "temp", name |-> "Temperature", overlayFunction |-> "temp"],
       [id |-> "clouds", name |-> "Clouds", overlayFunction |-> "clouds"],
       [id |-> "pressure", name |-> "Pressure", overlayFunction |-> "pressure"],
       [id |-> "rainClouds", name |-> "Rain & Clouds",
        overlayFunction |-> "rainClouds"] >>

\* getAvailableLayers().
GetAvailableLayers ==
    /\ MethodCall("getAvailableLayers")
    /\ layersReturned' = AvailableLayers(windyApi)
    /\ activated' = <<>>
    /\ UNCHANGED <<store, changeListeners, dispatch, markerLayers>>
    /\ UNCHANGED <<apiKey, bootVars, picker, mapView, viewVars>>

(***************************************************************************)
(* MapContainer: measurement clicks and the zoom-dependent imagery         *)
(***************************************************************************)

\* The geographic position of a clicked point, in degrees: latitudes and
\* longitudes on a grid of 30 degrees.
Location(point) ==
    [lat |-> 30 * (point % 4) - 30, lng |-> 30 * ((point * point) % 4)]

\* Sine and cosine in hundredths, for the multiples of 15 degrees.
SineTable == [n \in 0..6 |->
                 CASE n = 0 -> 0 [] n = 1 -> 26 [] n = 2 -> 50
                   [] n = 3 -> 71 [] n = 4 -> 87 [] n = 5 -> 97
                   [] OTHER -> 100]

Sine(degrees) ==
    IF degrees < 0 THEN 0 - SineTable[(0 - degrees) \div 15]
    ELSE SineTable[degrees \div 15]

Cosine(degrees) ==
    IF degrees < 0 THEN SineTable[(90 + degrees) \div 15]
    ELSE SineTable[(90 - degrees) \div 15]

\* The integer square root of x, searched between lo and hi.
RECURSIVE SqrtBetween(_, _, _)
SqrtBetween(x, lo, hi) ==
    IF lo >= hi THEN lo
    ELSE LET mid == (lo + hi + 1) \div 2
         IN IF mid * mid <= x THEN SqrtBetween(x, mid, hi)
            ELSE SqrtBetween(x, lo, mid - 1)

\* The central angle, in hundredths of a degree, whose haversine is h (in
\* 10^-8): twice the arcsine of its square root, interpolated in the table.
CentralAngle(h) ==
    LET r == SqrtBetween(h, 0, 10000)
        fits == {n \in 0..5 : SineTable[n] * 100 <= r}
        n == CHOOSE k \in fits : \A m \in fits : m <= k
        lo == SineTable[n] * 100
        hi == SineTable[n + 1] * 100
    IN 2 * (1500 * n + (1500 * (r - lo)) \div (hi - lo))

\* A distance whose longitude term is weighted by the first point only.
DistanceFromFirst(a, b) ==
    LET dLat == Sine((b.lat - a.lat) \div 2)
        dLon == Sine((b.lng - a.lng) \div 2)
        h == dLat * dLat * 10000
             + Cosine(a.lat) * Cosine(a.lat) * dLon * dLon
    IN (111 * CentralAngle(h)) \div 100

\* calculateDistance(a, b): the great-circle distance in kilometres by the
\* haversine formula, 111 km to the degree of central angle, for points
\* less than half a turn apart.
CalculateDistance(a, b) ==
    LET dLat == Sine((b.lat - a.lat) \div 2)
        dLon == Sine((b.lng - a.lng) \div 2)
        h == dLat * dLat * 10000
             + Cosine(a.lat) * Cosine(b.lat) * dLon * dLon
    IN (111 * CentralAngle(h)) \div 100

\* The layers of a list without the layer x.
WithoutLayer(layers, x) ==
    LET Other(y) == y # x IN SelectSeq(layers, Other)

\* createBuffer(point, radiusKm): the polygon around the point.
CreateBuffer(center, radiusKm) == [center |-> center, radiusKm |-> radiusKm]

\* A clearing that removes the markers and forgets the buffer polygon.
ClearedMarkersOnly(v) ==
    [v EXCEPT !.mapMarkers = <<>>, !.markersRef = <<>>]

\* The clearing branch of handleMapClick: the two markers and the buffer
\* polygon leave the map.
Cleared(v) ==
    [v EXCEPT !.mapMarkers = <<>>,
              !.markersRef = <<>>,
              !.mapBuffers = IF v.bufferLayerRef = <<>> THEN @
                             ELSE WithoutLayer(@, v.bufferLayerRef[1]),
              !.bufferLayerRef = <<>>]

\* The second marker is placed: the 1 km buffer around the first point
\* replaces the polygon of bufferLayerRef on the map.
WithBuffer(v) ==
    LET buffer == CreateBuffer(v.markersRef[1], 1)
        kept == IF v.bufferLayerRef = <<>> THEN v.mapBuffers
                ELSE WithoutLayer(v.mapBuffers, v.bufferLayerRef[1])
    IN [v EXCEPT !.mapBuffers = Append(kept, buffer),
                 !.bufferLayerRef = <<buffer>>,
                 !.distance = CalculateDistance(Location(v.markersRef[1]),
                                                Location(v.markersRef[2]))]

\* handleMapClick(e) with e.latlng = point.
HandleMapClick(v, point) ==
    LET a == IF Len(v.markersRef) >= 2 THEN Cleared(v) ELSE v
        b == [a EXCEPT !.markersRef = Append(@, point),
                       !.mapMarkers = Append(@, point)]
    IN IF Len(b.markersRef) = 2 THEN WithBuffer(b) ELSE b

\* The map fires 'click' while the click listener is registered.
MapClick(point) ==
    /\ mapView.mounted
    /\ mapView' = [HandleMapClick(mapView, point) EXCEPT !.ran = "click"]
    /\ UNCHANGED <<apiKey, bootVars, serviceVars, picker, layersReturned, viewVars>>

\* An attachment that adds the layer whether the map has it or not.
AttachedAgain(v) == [v EXCEPT !.layerOnMap = @ + 1]

\* The existing tile layer is added to the map unless the map has it.
Attached(v) == IF v.layerOnMap = 0 THEN [v EXCEPT !.layerOnMap = 1] ELSE v

\* The tile layer of the activation: constructed and added when
\* backupLayerRef is empty, the existing one otherwise.
LayerUsed(v) ==
    IF ~v.backupLayerRef
    THEN [v EXCEPT !.backupLayerRef = TRUE, !.constructed = @ + 1,
                   !.layerOnMap = @ + 1]
    ELSE Attached(v)

\* A state setter of the component; it has no effect after the unmount.
SetCurrentZoom(v, zoom) ==
    IF v.mounted THEN [v EXCEPT !.currentZoom = zoom] ELSE v

SetIsBackupLayerActive(v, active) ==
    IF v.mounted THEN [v EXCEPT !.isBackupLayerActive = active] ELSE v

\* checkZoomAndToggleBackupLayer as the closure that captured
\* isBackupLayerActive = c; throttled says that less than 50 ms have passed
\* since lastCheckRef.
CheckZoomAndToggleBackupLayer(v, c) ==
    IF v.throttled THEN v
    ELSE LET w == SetCurrentZoom([v EXCEPT !.throttled = TRUE], v.zoom) IN
         IF v.zoom > ZoomThreshold
         THEN IF ~c THEN SetIsBackupLayerActive(LayerUsed(w), TRUE) ELSE w
         ELSE IF c /\ w.backupLayerRef /\ w.layerOnMap > 0
              THEN SetIsBackupLayerActive([w EXCEPT !.layerOnMap = 0], FALSE)
              ELSE w

\* The closure of the last render.
Fresh(v) == v.rendered.isBackupLayerActive

\* The user or the widget changes the zoom of the map: the store emits
\* 'mapCoords' and, to the listeners of a mounted view, the map fires
\* 'zoomend' and 'moveend'.
ZoomChanges(zoom) ==
    /\ zoom # mapView.zoom
    /\ mapView' = [mapView EXCEPT
          !.zoom = zoom,
          !.pending = @ \cup {"mapCoords"} \cup
                      IF mapView.mounted THEN {"zoomend", "moveend"} ELSE {},
          !.ran = "zoom"]
    /\ UNCHANGED <<apiKey, bootVars, serviceVars, picker, layersReturned, viewVars>>

\* The store calls its 'mapCoords' listeners in their order: the first
\* closure runs the check, the others are inside its throttle window.
StoreEmitsMapCoords ==
    /\ "mapCoords" \in mapView.pending
    /\ mapView' = [CheckZoomAndToggleBackupLayer(
                       [mapView EXCEPT !.pending = @ \ {"mapCoords"}],
                       Head(mapView.storeListeners))
                   EXCEPT !.ran = "mapCoords"]
    /\ UNCHANGED <<apiKey, bootVars, serviceVars, picker, layersReturned, viewVars>>

\* The map calls the 'zoomend' or the 'moveend' listener of the last render.
MapEmits(event) ==
    /\ event \in mapView.pending
    /\ mapView.mounted
    /\ mapView' = [CheckZoomAndToggleBackupLayer(
                       [mapView EXCEPT !.pending = @ \ {event}],
                       Fresh(mapView))
                   EXCEPT !.ran = event]
    /\ UNCHANGED <<apiKey, bootVars, serviceVars, picker, layersReturned, viewVars>>

\* The broadcaster fires 'redrawFinished' or 'paramsChanged': the closure
\* subscribed when the service was created runs.
BroadcastCheck ==
    /\ mapView' = [CheckZoomAndToggleBackupLayer(
                       mapView, Head(mapView.broadcastListeners))
                   EXCEPT !.ran = "broadcast"]
    /\ UNCHANGED <<apiKey, bootVars, serviceVars, picker, layersReturned, viewVars>>

\* A pending setTimeout(..., 500) of the zoom effect fires.
TimeoutFires(c) ==
    /\ c \in mapView.timeouts
    /\ mapView' = [CheckZoomAndToggleBackupLayer(
                       [mapView EXCEPT !.timeouts = @ \ {c}], c)
                   EXCEPT !.ran = "timeout"]
    /\ UNCHANGED <<apiKey, bootVars, serviceVars, picker, layersReturned, viewVars>>

\* The 200 ms interval of the last render fires.
Poll ==
    /\ mapView.mounted
    /\ mapView' = [(IF mapView.zoom # mapView.rendered.currentZoom
                    THEN CheckZoomAndToggleBackupLayer(mapView, Fresh(mapView))
                    ELSE mapView)
                   EXCEPT !.ran = "poll"]
    /\ UNCHANGED <<apiKey, bootVars, serviceVars, picker, layersReturned, viewVars>>

\* 50 ms have passed since the last check: a delayed check that was set up
\* inside the window, 500 ms ahead, can fire from now on.
ThrottleEnds ==
    /\ mapView.throttled
    /\ mapView' = [mapView EXCEPT !.throttled = FALSE,
                                  !.timeouts = @ \cup mapView.young,
                                  !.young = {},
                                  !.ran = "time"]
    /\ UNCHANGED <<apiKey, bootVars, serviceVars, picker, layersReturned, viewVars>>

\* A state change is rendered: checkZoomAndToggleBackupLayer is a new
\* closure, so the zoom effect is cleaned up and set up again: a new
\* delayed check, one more store subscription, new zoomend and moveend
\* listeners and a new interval.
MapViewRender ==
    /\ mapView.mounted
    /\ mapView.rendered # [currentZoom |-> mapView.currentZoom,
                           isBackupLayerActive |-> mapView.isBackupLayerActive]
    /\ mapView' = [mapView EXCEPT
          !.rendered = [currentZoom |-> mapView.currentZoom,
                        isBackupLayerActive |-> mapView.isBackupLayerActive],
          !.timeouts = IF mapView.throttled THEN @
                       ELSE @ \cup {mapView.isBackupLayerActive},
          !.young = IF mapView.throttled
                    THEN @ \cup {mapView.isBackupLayerActive} ELSE @,
          !.storeListeners = Subscribe(@, mapView.isBackupLayerActive),
          !.ran = "render"]
    /\ UNCHANGED <<apiKey, bootVars, serviceVars, picker, layersReturned, viewVars>>

\* The cleanups of the unmount: click, zoomend and moveend listeners off,
\* the interval cleared, markers, buffer polygon and tile layer removed from
\* the map and their refs emptied.
MapViewUnmounted(v) ==
    [v EXCEPT !.mounted = FALSE,
              !.pending = @ \ {"zoomend", "moveend"},
              !.mapMarkers = <<>>, !.markersRef = <<>>,
              !.mapBuffers = IF v.bufferLayerRef = <<>> THEN @
                             ELSE WithoutLayer(@, v.bufferLayerRef[1]),
              !.bufferLayerRef = <<>>,
              !.layerOnMap = IF v.backupLayerRef THEN 0 ELSE @,
              !.backupLayerRef = FALSE]

MapViewUnmount ==
    /\ mapView.mounted
    /\ mapView' = [MapViewUnmounted(mapView) EXCEPT !.ran = "unmount"]
    /\ UNCHANGED <<apiKey, bootVars, serviceVars, picker, layersReturned, viewVars>>

(***************************************************************************)
(* Click handlers of the react-leaflet ("reactLeaflet"), of the frontend   *)
(* ("frontend") and of the widget-based ("windy", part_012) MapContainer   *)
(***************************************************************************)

ClickVariants == {"reactLeaflet", "frontend", "windy"}

\* Cap on the markers a click handler that never clears may leave on the map.
MaxClickMarkers == 4

\* whenReady of the react-leaflet map calls handleMapReady, which does
\* something when mapRef.current is set (attached says so) and `map` is
\* null: the handleMapClick of this render, whose `map` is null, becomes the
\* click listener.
HandleMapReady(v, attached) ==
    IF attached
    THEN [v EXCEPT !.ready = TRUE, !.registered = TRUE, !.seesMap = FALSE]
    ELSE [v EXCEPT !.ready = TRUE]

\* The map-initialisation effect of the frontend MapContainer: the listener
\* closes over the local leafletMap.
FrontendInitMap(v) ==
    [v EXCEPT !.ready = TRUE, !.registered = TRUE, !.seesMap = TRUE]

\* The handler body both variants share: a marker is added and pushed; with
\* exactly two markers the distance is computed and the buffer around the
\* first point replaces the one on the map.
MarkerPlaced(v, point) ==
    LET b == [v EXCEPT !.markers = Append(@, point)] IN
    IF Len(b.markers) = 2
    THEN LET buffer == CreateBuffer(b.markers[1], 1)
             kept == IF b.bufferLayer = <<>> THEN b.buffers
                     ELSE WithoutLayer(b.buffers, b.bufferLayer[1])
         IN [b EXCEPT !.buffers = Append(kept, buffer),
                      !.bufferLayer = <<buffer>>,
                      !.distance = CalculateDistance(Location(b.markers[1]),
                                                     Location(b.markers[2]))]
    ELSE b

\* The clearing branch of the handleMapClick of part_012: with two markers
\* present, the markers and the buffer leave the map.
MeasurementRestarted(v) ==
    IF Len(v.markers) < 2 THEN v
    ELSE [v EXCEPT !.markers = <<>>,
                   !.buffers = IF v.bufferLayer = <<>> THEN @
                               ELSE WithoutLayer(@, v.bufferLayer[1]),
                   !.bufferLayer = <<>>]

\* The click listener that is on the map: handleMapClick of
\* MapContainer.tsx returns at once while its `map` is null; the one of
\* part_012 clears a finished measurement first.
ClickListener(v, point) ==
    IF ~v.registered THEN v
    ELSE IF v.variant = "reactLeaflet" /\ ~v.seesMap THEN v
    ELSE IF v.variant = "windy" THEN MarkerPlaced(MeasurementRestarted(v), point)
    ELSE MarkerPlaced(v, point)

\* The map of a mounted view becomes ready.
ClicksMapReady(attached) ==
    /\ ~clicks.ready
    /\ clicks' = [(IF clicks.variant = "reactLeaflet"
                   THEN HandleMapReady(clicks, attached)
                   ELSE FrontendInitMap(clicks))
                  EXCEPT !.ran = "ready"]
    /\ UNCHANGED <<apiKey, bootVars, serviceVars, picker, mapView,
                   layersReturned, caught, layersHook, weather, panel>>

\* The user clicks on the displayed map.
ClicksClick(point) ==
    /\ clicks.ready
    /\ Len(clicks.markers) < MaxClickMarkers
    /\ clicks' = [ClickListener(clicks, point)
                  EXCEPT !.tick = ~clicks.tick, !.ran = "click"]
    /\ UNCHANGED <<apiKey, bootVars, serviceVars, picker, mapView,
                   layersReturned, caught, layersHook, weather, panel>>

\* The view unmounts: the map is removed with all that is on it.
ClicksUnmount ==
    /\ clicks.ready
    /\ clicks' = [clicks EXCEPT !.ready = FALSE, !.registered = FALSE,
                                !.markers = <<>>, !.buffers = <<>>,
                                !.bufferLayer = <<>>, !.ran = "unmount"]
    /\ UNCHANGED <<apiKey, bootVars, serviceVars, picker, mapView,
                   layersReturned, caught, layersHook, weather, panel>>

(***************************************************************************)
(* WindyMap.js: the weather markers of a ready map                         *)
(***************************************************************************)

\* addWeatherMarkers() of a closure whose weatherData is data: the layer is
\* cleared and gets one marker per point.
WeatherMarkersAdded(v, data) == [v EXCEPT !.markers = data]

\* The windyInit callback (lines 100-128): the layer groups are created,
\* setMapReady(true), and the markers of the weatherData of the first
\* render are added when it is not empty.
WeatherMapReady ==
    /\ ~weather.mapReady
    /\ ~weather.effectPending
    /\ weather' = [(IF weather.firstData # <<>>
                    THEN WeatherMarkersAdded(weather, weather.firstData)
                    ELSE weather)
                   EXCEPT !.mapReady = TRUE, !.effectPending = TRUE,
                          !.overlayOnMap = TRUE, !.ran = "ready"]
    /\ UNCHANGED <<apiKey, bootVars, serviceVars, picker, mapView,
                   layersReturned, caught, layersHook, clicks, panel>>

\* The parent renders WindyMap with another weatherData.
WeatherDataChanges(data) ==
    /\ ~weather.effectPending
    /\ data # weather.weatherData
    /\ weather' = [weather EXCEPT !.weatherData = data,
                                  !.effectPending = TRUE,
                                  !.ran = "input"]
    /\ UNCHANGED <<apiKey, bootVars, serviceVars, picker, mapView,
                   layersReturned, caught, layersHook, clicks, panel>>

\* The user toggles the overlay markers: the visibility effect (lines
\* 147-157) adds the overlay layer group to the map or removes it, once
\* the group exists.
WeatherToggleOverlay ==
    /\ ~weather.effectPending
    /\ weather' = [weather EXCEPT
          !.overlayVisible = ~@,
          !.overlayOnMap = IF weather.mapReady THEN ~weather.overlayVisible
                           ELSE @,
          !.ran = "toggle"]
    /\ UNCHANGED <<apiKey, bootVars, serviceVars, picker, mapView,
                   layersReturned, caught, layersHook, clicks, panel>>

\* The weatherData effect (lines 133-137).
WeatherEffect ==
    /\ weather.effectPending
    /\ weather' = [(IF weather.mapReady /\ weather.weatherData # <<>>
                    THEN WeatherMarkersAdded(weather, weather.weatherData)
                    ELSE weather)
                   EXCEPT !.effectPending = FALSE, !.ran = "effect"]
    /\ UNCHANGED <<apiKey, bootVars, serviceVars, picker, mapView,
                   layersReturned, caught, layersHook, clicks, panel>>

(***************************************************************************)
(* WindyControls: the change listener of the control panel                 *)
(***************************************************************************)

\* The panel mounts over the service: its effect (App.js 83-97), which
\* depends on windyService only, calls windyService.addChangeListener with
\* a new function and returns no cleanup.
PanelMount ==
    /\ ~panel.mounted
    /\ panel.mounts < NumListeners
    /\ MethodCall("addChangeListener")
    /\ Len(changeListeners) < MaxListenerList
    /\ changeListeners' = Append(changeListeners, panel.mounts + 1)
    /\ activated' = <<>>
    /\ panel' = [panel EXCEPT !.mounted = TRUE, !.mounts = @ + 1,
                              !.ran = "effect"]
    /\ UNCHANGED <<store, dispatch, markerLayers>>
    /\ UNCHANGED <<apiKey, bootVars, picker, mapView, layersReturned,
                   caught, layersHook, clicks, weather>>

\* The panel unmounts: no cleanup runs.
PanelUnmount ==
    /\ panel.mounted
    /\ panel' = [panel EXCEPT !.mounted = FALSE, !.ran = "unmount"]
    /\ UNCHANGED <<apiKey, bootVars, serviceVars, picker, mapView,
                   layersReturned, caught, layersHook, clicks, weather>>

(***************************************************************************)
(* Layer controls: useMapLayers.ts, the additional-layers effects          *)
(***************************************************************************)

LayerVariants == {"useMapLayers", "layerControlRef", "reactLeaflet"}

\* A new control has age 0: every other control is one older.
Older(c) ==
    IF c < 0 THEN c
    ELSE IF c < MaxAge THEN c + 1 ELSE MaxAge

\* L.control.layers(...).addTo(map).
WithNewControl(v) ==
    [v EXCEPT !.onMap = {Older(c) : c \in @} \cup {0},
              !.layerControl = Older(@),
              !.rendered = Older(@),
              !.cleanup = Older(@)]

\* map.removeControl(c).
WithoutControl(v, c) == [v EXCEPT !.onMap = @ \ {c}]

\* The cleanup of useMapLayers (lines 91-102): it removes the control its
\* closure holds, which is the layerControl of the render that ran the
\* effect.
UseMapLayersCleanup(v) ==
    IF v.cleanup < 0 THEN v
    ELSE WithoutControl(v, v.cleanup)

\* The effect of useMapLayers (lines 19-103) over an available map: a
\* control is created and attached, setLayerControl and setLayerInstances
\* schedule a render, and the cleanup closes over the layerControl of this
\* render.
UseMapLayersEffect(v) ==
    LET w == WithNewControl(UseMapLayersCleanup(v)) IN
    [w EXCEPT !.layerControl = 0,
              !.cleanup = w.rendered,
              !.dirty = TRUE]

\* The cleanup of the additional-layers effect of part_012 (lines 309-320):
\* the control in layerControlRef is removed and the ref emptied.
RefCleanup(v) ==
    IF v.cleanup = NoCleanup \/ v.layerControl = NoControl THEN v
    ELSE [WithoutControl(v, v.layerControl) EXCEPT !.layerControl = NoControl]

\* The additional-layers effect of part_012 (lines 270-321): the control of
\* layerControlRef is removed before a new one is attached.
RefEffect(v) ==
    LET u == RefCleanup(v) IN
    IF u.layers = 0 THEN [u EXCEPT !.cleanup = NoCleanup]
    ELSE LET w == WithNewControl(
                    IF u.layerControl = NoControl THEN u
                    ELSE WithoutControl(u, u.layerControl)) IN
         [w EXCEPT !.layerControl = 0, !.cleanup = 0]

\* The additional-layers effect of the react-leaflet MapContainer
\* (MapContainer.tsx 116-145): a control is attached when a layer is
\* visible; the cleanup removes tile layers only.
ReactLeafletEffect(v) ==
    IF v.layers = 0 \/ ~v.visible THEN v ELSE WithNewControl(v)

LayersEffectOf(v) ==
    CASE v.variant = "useMapLayers" -> UseMapLayersEffect(v)
      [] v.variant = "layerControlRef" -> RefEffect(v)
      [] OTHER -> ReactLeafletEffect(v)

\* The pending effect runs: the cleanup of its last run, then its body.
LayersEffect ==
    /\ layersHook.mounted
    /\ layersHook.effectPending
    /\ layersHook' = [LayersEffectOf(layersHook)
                      EXCEPT !.effectPending = FALSE, !.ran = "effect"]
    /\ UNCHANGED <<apiKey, bootVars, serviceVars, picker, mapView,
                   layersReturned, caught, clicks, weather, panel>>

\* A scheduled render commits.  The effect of useMapLayers depends on
\* mapLayers, an array built in every render, and the effect of part_012 on
\* the default backupLayer object, built in every render: both run again.
\* The effect of the react-leaflet MapContainer runs again when the parent
\* passed another additionalLayers.
LayersRender ==
    /\ layersHook.mounted
    /\ layersHook.dirty
    /\ ~layersHook.effectPending
    /\ layersHook' = [layersHook EXCEPT
          !.dirty = FALSE,
          !.rendered = layersHook.layerControl,
          !.effectPending = (layersHook.variant # "reactLeaflet"
                             \/ layersHook.inputChanged),
          !.inputChanged = FALSE,
          !.ran = "render"]
    /\ UNCHANGED <<apiKey, bootVars, serviceVars, picker, mapView,
                   layersReturned, caught, clicks, weather, panel>>

\* The parent renders the view with another additionalLayers list.
LayersInput(n, visible) ==
    /\ layersHook.mounted
    /\ ~layersHook.effectPending
    /\ <<n, visible>> # <<layersHook.layers, layersHook.visible>>
    /\ n = 0 => ~visible
    /\ layersHook' = [layersHook EXCEPT !.layers = n, !.visible = visible,
                                        !.dirty = TRUE,
                                        !.inputChanged = TRUE,
                                        !.ran = "input"]
    /\ UNCHANGED <<apiKey, bootVars, serviceVars, picker, mapView,
                   layersReturned, caught, clicks, weather, panel>>

\* The cleanup of the last effect run, at the unmount.
LayersCleanupOf(v) ==
    CASE v.variant = "useMapLayers" -> UseMapLayersCleanup(v)
      [] v.variant = "layerControlRef" -> RefCleanup(v)
      [] OTHER -> v

LayersUnmount ==
    /\ layersHook.mounted
    /\ ~layersHook.effectPending
    /\ layersHook' = [LayersCleanupOf(layersHook)
                      EXCEPT !.mounted = FALSE, !.dirty = FALSE,
                             !.ran = "unmount"]
    /\ UNCHANGED <<apiKey, bootVars, serviceVars, picker, mapView,
                   layersReturned, caught, clicks, weather, panel>>

(***************************************************************************)
(* Specifications                                                          *)
(***************************************************************************)

\* The views of the undp-frontend application: ScriptLoader and the hook.
Step(i) ==
    \/ \E k \in {"ScriptLoader", "Hook"} : Mount(i, k)
    \/ Render(i)
    \/ PropsChange(i)
    \/ Unmount(i)
    \/ ScriptLoaderLeafletEffect(i)
    \/ ScriptLoaderWindyEffect(i)
    \/ ScriptLoaderNotifyEffect(i)
    \/ OnLoadTimer(i)
    \/ HookLeafletEffect(i)
    \/ HookWindyEffect(i)
    \/ MapContainerInitEffect(i)
    \/ InitializeWindyCall(i)
    \/ WindyInitCallback(i)
    \/ \E lib \in Lib : ScriptLoad(i, lib)
    \/ \E lib \in Lib : ScriptError(i, lib)

Init == InitDocument /\ apiKey = TRUE /\ NoService

Next == \E i \in Inst : Step(i)

Spec == Init /\ [][Next]_vars

\* The application as wired: every map view is a MapContainer with the hook.
StepHook(i) ==
    \/ Mount(i, "Hook")
    \/ Render(i)
    \/ Unmount(i)
    \/ HookLeafletEffect(i)
    \/ HookWindyEffect(i)
    \/ MapContainerInitEffect(i)
    \/ InitializeWindyCall(i)
    \/ WindyInitCallback(i)
    \/ \E lib \in Lib : ScriptLoad(i, lib)
    \/ \E lib \in Lib : ScriptError(i, lib)

NextHook == \E i \in Inst : StepHook(i)

SpecHook == Init /\ [][NextHook]_vars

\* One view with the hook, whose callers pass any display options.
NextConfigure ==
    \/ Mount(1, "Hook")
    \/ Render(1)
    \/ Unmount(1)
    \/ HookLeafletEffect(1)
    \/ HookWindyEffect(1)
    \/ MapContainerInitEffect(1)
    \/ InitializeWindyCall(1)
    \/ WindyInitCallbackAny(1)
    \/ \E lib \in Lib : ScriptLoad(1, lib)
    \/ \E lib \in Lib : ScriptError(1, lib)

SpecConfigure == Init /\ [][NextConfigure]_vars

\* The context-based application: every map view is a WindyLayer.  No call
\* of window.windyInit is ever made (see C30), so the callback of windyInit
\* is no step of this specification.
StepWindyLayer(i) ==
    \/ Mount(i, "WindyLayer")
    \/ Render(i)
    \/ Unmount(i)
    \/ HookLeafletEffect(i)
    \/ HookWindyEffect(i)
    \/ WindyLayerInitEffect(i)
    \/ WindyLayerTimer(i)
    \/ \E lib \in Lib : ScriptLoad(i, lib)
    \/ \E lib \in Lib : ScriptError(i, lib)

NextWindyLayer == \E i \in Inst : StepWindyLayer(i)

SpecWindyLayer == Init /\ [][NextWindyLayer]_vars

\* The parts of the earlier sections at rest, for the specifications of one
\* view over an initialized map.
InitOtherParts ==
    /\ InitDocument
    /\ windowL = TRUE
    /\ apiKey = TRUE
    /\ windyApi = [store |-> TRUE, overlays |-> TRUE, registry |-> {"wind"},
                   map |-> TRUE, subscribed |-> TRUE]
    /\ store = [overlay |-> "wind", level |-> "surface", timestamp |-> 0]
    /\ activated = <<>>
    /\ changeListeners = <<>>
    /\ dispatch = NoDispatch
    /\ markerLayers = NewLayers(TRUE)
    /\ tick = FALSE
    /\ lastOp = "none"
    /\ thrown = FALSE
    /\ picker = NoPicker
    /\ mapView = NewMapView(InitialZoom)
    /\ layersReturned = <<>>

\* One view with a layer-control effect, of any of the three variants, from
\* the commit in which the map is available; the parent passes up to
\* MaxLayers additional layers.  React runs every scheduled render and
\* every pending effect.
MaxLayers == 1

InitLayerControl ==
    /\ InitOtherParts
    /\ caught = FALSE
    /\ \E variant \in LayerVariants, n \in 0..MaxLayers, visible \in BOOLEAN :
          /\ n = 0 => ~visible
          /\ layersHook = [NewLayersHook EXCEPT !.variant = variant,
                                                !.layers = n,
                                                !.visible = visible]
    /\ clicks = NewClicks
    /\ weather = NewWeather
    /\ panel = NewPanel

NextLayerControl ==
    \/ LayersEffect
    \/ LayersRender
    \/ \E n \in 0..MaxLayers, visible \in BOOLEAN : LayersInput(n, visible)
    \/ LayersUnmount

SpecLayerControl ==
    /\ InitLayerControl
    /\ [][NextLayerControl]_vars
    /\ WF_vars(LayersEffect)
    /\ WF_vars(LayersRender)

\* One MapContainer of the react-leaflet or of the frontend variant and the
\* clicks of its user.
InitClicks ==
    /\ InitOtherParts
    /\ caught = FALSE
    /\ layersHook = NewLayersHook
    /\ \E variant \in ClickVariants :
          clicks = [NewClicks EXCEPT !.variant = variant]
    /\ weather = NewWeather
    /\ panel = NewPanel

NextClicks ==
    \/ \E attached \in BOOLEAN : ClicksMapReady(attached)
    \/ \E point \in Points : ClicksClick(point)
    \/ ClicksUnmount

SpecClicks == InitClicks /\ [][NextClicks]_vars

\* One WindyMap from its first render, with any weatherData input.
InitWeather ==
    /\ InitOtherParts
    /\ caught = FALSE
    /\ layersHook = NewLayersHook
    /\ clicks = NewClicks
    /\ \E data \in PointLists :
          weather = [NewWeather EXCEPT !.weatherData = data,
                                      !.firstData = data]
    /\ panel = NewPanel

NextWeather ==
    \/ WeatherMapReady
    \/ \E data \in PointLists : WeatherDataChanges(data)
    \/ WeatherToggleOverlay
    \/ WeatherEffect

SpecWeather == InitWeather /\ [][NextWeather]_vars

\* A WindyService whose only listeners are those of its control panel,
\* which mounts, unmounts and mounts again while the service is used.
InitPanel ==
    /\ InitOtherParts
    /\ caught = FALSE
    /\ layersHook = NewLayersHook
    /\ clicks = NewClicks
    /\ weather = NewWeather
    /\ panel = NewPanel

NextPanel ==
    \/ PanelMount
    \/ PanelUnmount
    \/ \E layerId \in LayerIds : SetActiveLayer(layerId)
    \/ \E level \in Levels : SetAltitudeLevel(level)
    \/ ListenerRuns

SpecPanel == InitPanel /\ [][NextPanel]_vars

\* A WindyService over any handle whose listeners return or throw.
NextThrowing ==
    \/ \E layerId \in LayerIds : SetActiveLayer(layerId)
    \/ \E level \in Levels : SetAltitudeLevel(level)
    \/ \E l \in Listener : AddChangeListener(l)
    \/ \E l \in Listener : RemoveChangeListener(l)
    \/ ListenerRuns
    \/ ListenerThrows
    \/ \E raw \in {"redrawFinished", "paramsChanged"} : BroadcastFires(raw)
    \/ \E layerId \in LayerIds : WidgetSetsOverlay(layerId)

SpecThrowing == InitService /\ [][NextThrowing]_vars

\* One view instance alone on its document.
NextOne == Step(1)

SpecOne == Init /\ [][NextOne]_vars

\* The views of the undp-frontend-backup application: WindyMap.
StepWindyMap(i) ==
    \/ Mount(i, "WindyMap")
    \/ Render(i)
    \/ Unmount(i)
    \/ WindyMapLoadEffect(i)
    \/ WindyMapInitCallback(i)
    \/ \E lib \in Lib : ScriptLoad(i, lib)
    \/ \E lib \in Lib : ScriptError(i, lib)

NextWindyMap == \E i \in Inst : StepWindyMap(i)

SpecWindyMap == Init /\ [][NextWindyMap]_vars

\* The views of the frontend application: Leaflet is bundled, the key may
\* be missing from the environment.
InitFrontend == InitDocument /\ windowL = TRUE /\ apiKey \in BOOLEAN /\ NoService

StepFrontend(i) ==
    \/ Mount(i, "FrontendHook")
    \/ Render(i)
    \/ Unmount(i)
    \/ FrontendScriptEffect(i)
    \/ FrontendInitializeWindyCall(i)
    \/ FrontendInitResolved(i)
    \/ FrontendInitRejected(i)
    \/ \E lib \in Lib : ScriptLoad(i, lib)
    \/ \E lib \in Lib : ScriptError(i, lib)

NextFrontend == \E i \in Inst : StepFrontend(i)

SpecFrontend == InitFrontend /\ [][NextFrontend]_vars

\* A WindyService and its callers.
NextService ==
    \/ \E layerId \in LayerIds : SetActiveLayer(layerId)
    \/ \E level \in Levels : SetAltitudeLevel(level)
    \/ \E timestamp \in Timestamps : SetForecastTime(timestamp)
    \/ \E l \in Listener : AddChangeListener(l)
    \/ \E l \in Listener : RemoveChangeListener(l)
    \/ Cleanup
    \/ ListenerRuns
    \/ \E l \in Listener : ListenerRemoves(l)
    \/ \E raw \in {"redrawFinished", "paramsChanged"} : BroadcastFires(raw)
    \/ \E layerId \in LayerIds : WidgetSetsOverlay(layerId)

SpecService == InitService /\ [][NextService]_vars

\* The picker methods of a WindyService over any handle, with or without a
\* picker.
InitPicker ==
    /\ InitDocument
    /\ windowL = FALSE
    /\ apiKey = TRUE
    /\ windyApi \in Handles
    /\ store = [overlay |-> "wind", level |-> "surface", timestamp |-> 0]
    /\ activated = <<>>
    /\ changeListeners = <<>>
    /\ dispatch = NoDispatch
    /\ markerLayers = NewLayers(windyApi.map)
    /\ tick = FALSE
    /\ lastOp = "none"
    /\ thrown = FALSE
    /\ picker \in {NoPicker, [NoPicker EXCEPT !.present = FALSE]}
    /\ mapView = NewMapView(InitialZoom)
    /\ layersReturned = <<>>
    /\ InitViews

NextPicker ==
    \/ \E lat \in Latitudes, lon \in Longitudes : OpenPicker(lat, lon)
    \/ \E callback \in Listener : RegisterPickerEvents(callback)

SpecPicker == InitPicker /\ [][NextPicker]_vars

\* One MapContainer from the render in which its map is available to after
\* its unmount.
InitMapView ==
    /\ InitDocument
    /\ windowL = TRUE
    /\ apiKey = TRUE
    /\ windyApi = [store |-> TRUE, overlays |-> TRUE, registry |-> {"wind"},
                   map |-> TRUE, subscribed |-> TRUE]
    /\ store = [overlay |-> "wind", level |-> "surface", timestamp |-> 0]
    /\ activated = <<>>
    /\ changeListeners = <<>>
    /\ dispatch = NoDispatch
    /\ markerLayers = NewLayers(TRUE)
    /\ tick = FALSE
    /\ lastOp = "none"
    /\ thrown = FALSE
    /\ picker = NoPicker
    /\ \E zoom \in Zooms : mapView = NewMapView(zoom)
    /\ layersReturned = <<>>
    /\ InitViews

NextMapView ==
    \/ \E zoom \in Zooms : ZoomChanges(zoom)
    \/ StoreEmitsMapCoords
    \/ \E event \in {"zoomend", "moveend"} : MapEmits(event)
    \/ BroadcastCheck
    \/ \E c \in BOOLEAN : TimeoutFires(c)
    \/ Poll
    \/ ThrottleEnds
    \/ MapViewRender
    \/ MapViewUnmount

SpecMapView == InitMapView /\ [][NextMapView]_vars

\* The measurement clicks of a MapContainer while the user zooms the map.
NextMeasure ==
    \/ \E point \in Points : MapClick(point)
    \/ \E zoom \in Zooms : ZoomChanges(zoom)
    \/ \E event \in {"zoomend", "moveend"} : MapEmits(event)
    \/ ThrottleEnds
    \/ MapViewRender
    \/ MapViewUnmount

SpecMeasure == InitMapView /\ [][NextMeasure]_vars

\* getAvailableLayers between the other operations of a WindyService, over
\* any handle.
NextCatalog ==
    \/ GetAvailableLayers
    \/ \E layerId \in LayerIds : SetActiveLayer(layerId)
    \/ \E level \in Levels : SetAltitudeLevel(level)
    \/ AddChangeListener(1)
    \/ ListenerRuns
    \/ Cleanup

SpecCatalog == InitService /\ [][NextCatalog]_vars

\* The marker layers of a WindyService, its listeners and its cleanup.
NextMarkers ==
    \/ \E points \in PointLists : AddWeatherMarkers(points)
    \/ \E points \in PointLists : AddOverlayMarkers(points)
    \/ \E visible \in BOOLEAN : ToggleOverlayVisibility(visible)
    \/ Cleanup
    \/ AddChangeListener(1)
    \/ ListenerRuns
    \/ \E raw \in {"redrawFinished", "paramsChanged"} : BroadcastFires(raw)
    \/ WidgetSetsOverlay("temp")

\* The marker methods use the map of the handle only: the handle has or
\* lacks its map and its broadcaster.
InitMarkers ==
    /\ InitService
    /\ windyApi.store
    /\ windyApi.overlays
    /\ windyApi.registry = {"wind"}

SpecMarkers == InitMarkers /\ [][NextMarkers]_vars

(***************************************************************************)
(* Properties                                                              *)
(***************************************************************************)

\* The loaded flag of a script in the state of an instance.
Flag(r, lib) ==
    IF lib = "leaflet" THEN r.leafletScriptLoaded ELSE r.windyScriptLoaded

\* The global a script defines is present.
Present(lib) == IF lib = "leaflet" THEN windowL ELSE windowWindyInit

\* The only tags of lib in the document are failed ones and its global is absent.
FailedOnly(lib) ==
    /\ ~Present(lib)
    /\ \E j \in Inst : scripts[j][lib].inDoc
    /\ \A j \in Inst : scripts[j][lib].inDoc => scripts[j][lib].st = "failed"

\* This step is a call of initializeWindy by instance i.
CallsInitializeWindy(i) ==
    \/ /\ MapContainerInitEffect(i)
       /\ ~inst[i].closure.windyInstance
       /\ ~inst[i].closure.isLoading
    \/ InitializeWindyCall(i)

\* The call of initializeWindy by instance i takes the not-ready branch.
NotReady(i) == ~InitGuard(inst[i]) /\ ~ScriptsReady(inst[i])

\* C1: with one bootstrapper on the document, the widget script tag is
\* appended only once the base library is there (never while window.L is
\* absent).
C1_WidgetAfterBase == \A i \in Inst : ~scripts[i]["windy"].early

\* C2: however many bootstrappers share the document, it never holds more
\* than one script tag of the base library nor more than one of the widget.
C2_OneTagPerScript ==
    \A lib \in Lib : Cardinality({j \in Inst : scripts[j][lib].inDoc}) <= 1

\* C2 witness: a second instance found the pending tag of the first one and
\* appended none.
C2_Witness ==
    \E i, j \in Inst :
        /\ i # j
        /\ scripts[i]["leaflet"].inDoc
        /\ scripts[i]["leaflet"].st = "pending"
        /\ inst[j].mounted = "yes"
        /\ inst[j].leafletScriptLoaded
        /\ ~scripts[j]["leaflet"].inDoc

\* C3: while the callback of a windyInit call is pending the hook does not
\* call windyInit again, so there is never a second pending callback.
C3_NoInitWhilePending ==
    [][\A i \in Inst :
          inst[i].pendingInit > 0 =>
              /\ inst'[i].initCalls = inst[i].initCalls
              /\ inst'[i].pendingInit <= 1]_vars

\* C3 witness: initializeWindy was called while a callback was pending and
\* returned at the guard.
C3_Witness ==
    \E i \in Inst : inst[i].pendingInit = 1 /\ inst[i].lastCall = "guarded"

\* C4: once the hook holds the handle no call of initializeWindy calls
\* windyInit again, and an instance never receives more than one handle.
C4_NoInitAfterHandle ==
    [][\A i \in Inst :
          /\ inst[i].windyInstance => inst'[i].initCalls = inst[i].initCalls
          /\ inst'[i].handles <= 1]_vars

\* C4 witness: initializeWindy was called after the handle arrived and
\* returned at the guard.
C4_Witness ==
    \E i \in Inst :
        /\ inst[i].windyInstance
        /\ inst[i].handles = 1
        /\ inst[i].lastCall = "guarded"

\* C5: window.windyInit is called only when both scripts have loaded, i.e.
\* when window.L and window.windyInit are both there.
C5_InitAfterBothLoads ==
    [][\A i \in Inst :
          inst'[i].initCalls > inst[i].initCalls =>
              windowL /\ windowWindyInit]_vars

\* C6: setActiveLayer with an id outside the catalog throws nothing and
\* leaves the 'overlay' key of the store as it was.
C6_UnknownLayerIgnored ==
    [][SetActiveLayer("invalid-layer") =>
          ~thrown' /\ store'.overlay = store.overlay]_vars

\* C7: a loader that runs again after a script failed does not take the
\* failed script for a loaded one: no loaded flag is set while the only tag
\* of the script is a failed one.
C7_FailedNeverLoaded ==
    [][\A i \in Inst : \A lib \in Lib :
          ~Flag(inst[i], lib) /\ Flag(inst'[i], lib) => ~FailedOnly(lib)]_vars

\* C8: a ScriptLoader whose base script failed stays failed: it does not set
\* the base loaded flag, appends no widget script and does not signal onLoad
\* afterwards; after a widget failure it does not set the widget flag nor
\* signal onLoad.
C8_FailedStaysFailed ==
    [][\A i \in Inst :
          /\ inst[i].kind = "ScriptLoader" /\ inst[i].error = "leaflet" =>
                /\ inst'[i].leafletScriptLoaded => inst[i].leafletScriptLoaded
                /\ scripts'[i]["windy"].inDoc => scripts[i]["windy"].inDoc
                /\ inst'[i].onLoadCalled => inst[i].onLoadCalled
          /\ inst[i].kind = "ScriptLoader" /\ inst[i].error = "windy" =>
                /\ inst'[i].windyScriptLoaded => inst[i].windyScriptLoaded
                /\ inst'[i].onLoadCalled => inst[i].onLoadCalled]_vars

\* C9: a view whose script failed to load or whose initializer failed shows
\* an error.
C9_FailureVisible ==
    \A i \in Inst : inst[i].failed => inst[i].error # "none"

\* C10 as stated: a call of initializeWindy before both scripts are loaded
\* changes neither the handle nor the loading flag nor the error.
C10_NotReadySilent ==
    [][\A i \in Inst :
          CallsInitializeWindy(i) /\ NotReady(i) =>
              /\ inst'[i].windyInstance = inst[i].windyInstance
              /\ inst'[i].isLoading = inst[i].isLoading
              /\ inst'[i].error = inst[i].error]_vars

\* C10 amended: a call of initializeWindy before both scripts are loaded
\* does not call windyInit and changes neither the handle, the loading flag
\* nor the in-flight ref, but it sets the error to 'Required scripts not
\* loaded yet'.
C10_NotReadySetsError ==
    [][\A i \in Inst :
          CallsInitializeWindy(i) /\ NotReady(i) =>
              /\ inst'[i].windyInstance = inst[i].windyInstance
              /\ inst'[i].isLoading = inst[i].isLoading
              /\ inst'[i].initializationAttemptedRef
                     = inst[i].initializationAttemptedRef
              /\ inst'[i].initCalls = inst[i].initCalls
              /\ inst'[i].pendingInit = inst[i].pendingInit
              /\ inst'[i].error = "notready"]_vars

\* C10 witness: the last call of initializeWindy found the scripts not
\* loaded and the hook shows that error.
C10_Witness ==
    \E i \in Inst :
        /\ inst[i].lastCall = "notready"
        /\ inst[i].error = "notready"
        /\ ~inst[i].windyInstance

\* C11: without a configured access key a call of initializeWindy sets the
\* missing-key error and does not call window.windyInit.
C11_MissingKeyError ==
    [][\A i \in Inst :
          FrontendInitializeWindyCall(i) /\ ~apiKey =>
              /\ inst'[i].error = "nokey"
              /\ inst'[i].initCalls = inst[i].initCalls]_vars

\* window.windyInit was called by instance i in this step and threw.
WindyInitThrew(i) ==
    /\ inst'[i].initCalls > inst[i].initCalls
    /\ inst'[i].pendingInit = inst[i].pendingInit

\* C12: when window.windyInit throws, the hook records the error, gets no
\* handle, and resets the loading flag and the in-flight ref, so that the
\* guard of initializeWindy lets the next call through.
C12_ThrowIsRecovered ==
    [][\A i \in Inst :
          WindyInitThrew(i) =>
              /\ inst'[i].error = "init"
              /\ inst'[i].handles = inst[i].handles
              /\ ~inst'[i].windyInstance
              /\ ~inst'[i].isLoading
              /\ ~inst'[i].initializationAttemptedRef
              /\ ~InitGuard(inst'[i])]_vars

\* C12 witness: after a throw, a second call of initializeWindy reached
\* window.windyInit and its callback is pending.
C12_Witness ==
    \E i \in Inst :
        /\ inst[i].initCalls = 2
        /\ inst[i].pendingInit = 1
        /\ inst[i].handles = 0
        /\ inst[i].error = "init"

\* C13: for an id of the catalog, setActiveLayer(id) writes id as the
\* 'overlay' of the store and calls the overlay function of that layer exactly
\* once when the overlay registry of the handle has it, and calls no overlay
\* function otherwise.
C13_ActivatesCatalogLayer ==
    [][\A id \in Catalog :
          SetActiveLayer(id) =>
              /\ windyApi.store => store'.overlay = id
              /\ activated' =
                    IF windyApi.overlays /\ OverlayFunction(id) \in windyApi.registry
                    THEN <<OverlayFunction(id)>>
                    ELSE <<>>]_vars

\* C14: after addWeatherMarkers(points), and likewise after
\* addOverlayMarkers(points), the layer group of the method holds exactly the
\* markers of the given points, one per point and in their order, and none of
\* an earlier call; with the empty list it holds none, whatever it held.
C14_LayerHoldsGivenPoints ==
    [][\A points \in PointLists :
          /\ AddWeatherMarkers(points) /\ markerLayers["weather"].exists
                => markerLayers'["weather"].markers = points
          /\ AddOverlayMarkers(points) /\ markerLayers["alert"].exists
                => markerLayers'["alert"].markers = points]_vars

\* A marker method has filled a layer group that exists.
C14_Witness ==
    /\ lastOp = "addWeatherMarkers"
    /\ markerLayers["weather"].exists
    /\ markerLayers["weather"].markers # <<>>

\* C15: the two layer groups are independent: addWeatherMarkers changes
\* neither the markers nor the map attachment of the alert group, and
\* addOverlayMarkers and toggleOverlayVisibility change neither the markers
\* nor the attachment of the weather group.
C15_LayersIndependent ==
    [][/\ \A points \in PointLists :
             /\ AddWeatherMarkers(points)
                   => markerLayers'["alert"] = markerLayers["alert"]
             /\ AddOverlayMarkers(points)
                   => markerLayers'["weather"] = markerLayers["weather"]
       /\ \A visible \in BOOLEAN :
             ToggleOverlayVisibility(visible)
                => markerLayers'["weather"] = markerLayers["weather"]]_vars

\* addWeatherMarkers has acted while the alert group was off the map with
\* markers of its own: the groups differ in markers and in attachment.
C15_Witness ==
    /\ lastOp = "addWeatherMarkers"
    /\ markerLayers["weather"].markers # <<>>
    /\ markerLayers["alert"].markers # <<>>
    /\ markerLayers["alert"].markers # markerLayers["weather"].markers
    /\ markerLayers["weather"].onMap = 1
    /\ markerLayers["alert"].onMap = 0

\* C16: toggleOverlayVisibility never changes the markers of the alert group;
\* after a show the group is on the map exactly once, whether it was hidden
\* or already shown before, and after a hide it is off the map.
C16_ToggleKeepsContents ==
    [][\A visible \in BOOLEAN :
          ToggleOverlayVisibility(visible) =>
             /\ markerLayers'["alert"].markers = markerLayers["alert"].markers
             /\ markerLayers["alert"].exists =>
                   markerLayers'["alert"].onMap = IF visible THEN 1 ELSE 0]_vars

\* The alert group has been hidden while it held markers, which it kept.
C16_Witness ==
    /\ lastOp = "toggleOverlayVisibility"
    /\ markerLayers["alert"].exists
    /\ markerLayers["alert"].onMap = 0
    /\ markerLayers["alert"].markers # <<>>

\* C17: once removeChangeListener(fn) has returned, fn is not invoked again,
\* neither by a later event nor by the rest of a dispatch in progress: the
\* listener that a dispatch calls next is on the listener list.
C17_RemovedNeverInvoked ==
    dispatch # NoDispatch => Registered(changeListeners, Head(dispatch.queue))

\* The events of a dispatch: the one being delivered and those that follow.
Delivered == IF dispatch = NoDispatch THEN {}
             ELSE {dispatch.event} \cup {dispatch.next[n] : n \in 1..Len(dispatch.next)}

\* C18 as stated: every event name delivered to a change listener is one of
\* overlay, level, redraw, paramsChanged.
C18_OnlyNormalizedEvents ==
    Delivered \subseteq {"overlay", "level", "redraw", "paramsChanged"}

\* C18, amended: every event name delivered to a change listener is one of
\* overlay, level, redraw, params (for the broadcaster's 'paramsChanged'),
\* layerChange, timeChange and levelChange (sent by setActiveLayer,
\* setForecastTime and setAltitudeLevel themselves).
C18_DeliveredEvents ==
    Delivered \subseteq {"overlay", "level", "redraw", "params",
                         "layerChange", "timeChange", "levelChange"}

\* A listener is about to receive the broadcaster's 'paramsChanged'.
C18_Witness ==
    /\ lastOp = "paramsChanged"
    /\ dispatch.event = "params"
    /\ dispatch.queue # <<>>

\* C19: cleanup() leaves both layer groups without markers and the listener
\* list empty, and while the listener list is empty an event of the handle
\* starts no delivery: no listener registered before the cleanup is reached.
C19_CleanupClearsAll ==
    [][/\ Cleanup =>
             /\ changeListeners' = <<>>
             /\ \A g \in {"weather", "alert"} : markerLayers'[g].markers = <<>>
       /\ dispatch = NoDispatch /\ changeListeners = <<>>
             => dispatch' = NoDispatch]_vars

\* cleanup() has run on a service whose handle has a map and a broadcaster.
C19_Witness ==
    /\ lastOp = "cleanup"
    /\ windyApi.subscribed
    /\ markerLayers["weather"].exists
    /\ markerLayers["alert"].exists

\* C20: a method called on a handle that lacks the sub-object it needs is a
\* no-op: setActiveLayer of a catalog layer without the store or without the
\* overlay registry, setAltitudeLevel and setForecastTime without the store
\* change neither the store nor the listeners, the marker layers or the
\* events being delivered.
C20_DegradesToNoOp ==
    [][LET NoOp == /\ store' = store
                   /\ dispatch' = dispatch
                   /\ changeListeners' = changeListeners
                   /\ markerLayers' = markerLayers
       IN /\ \A id \in Catalog :
                SetActiveLayer(id) /\ (~windyApi.store \/ ~windyApi.overlays)
                   => NoOp
          /\ \A level \in Levels :
                SetAltitudeLevel(level) /\ ~windyApi.store => NoOp
          /\ \A timestamp \in Timestamps :
                SetForecastTime(timestamp) /\ ~windyApi.store => NoOp]_vars

\* C21: on a handle with a picker, openPicker(lat, lon) calls picker.open
\* exactly once with exactly the given coordinates and
\* registerPickerEvents(callback) subscribes the callback to 'pickerOpened';
\* on a handle without a picker neither call reaches the handle.
C21_PickerDelegation ==
    [][/\ \A lat \in Latitudes, lon \in Longitudes :
             OpenPicker(lat, lon) =>
                /\ picker'.handlers = picker.handlers
                /\ picker'.opened = IF picker.present
                                    THEN <<[lat |-> lat, lon |-> lon]>>
                                    ELSE <<>>
       /\ \A callback \in Listener :
             RegisterPickerEvents(callback) =>
                /\ picker'.opened = <<>>
                /\ picker'.handlers = IF picker.present
                                      THEN Append(picker.handlers, callback)
                                      ELSE picker.handlers]_vars

\* A callback is subscribed and the last call opened the picker at a point
\* whose latitude differs from its longitude.
C21_Witness ==
    /\ lastOp = "openPicker"
    /\ picker.handlers # <<>>
    /\ Len(picker.opened) = 1
    /\ picker.opened[1].lat # picker.opened[1].lon

\* C22: after any sequence of map clicks at most one buffer polygon is on
\* the map; it is there exactly when two measurement markers are, and it is
\* the polygon around the first of the two clicked points.
C22_OneBufferAroundFirst ==
    /\ Len(mapView.mapBuffers) <= 1
    /\ Len(mapView.mapBuffers) = 1 <=> Len(mapView.markersRef) = 2
    /\ mapView.mapMarkers = mapView.markersRef
    /\ Len(mapView.mapBuffers) = 1 =>
          mapView.mapBuffers[1].center = mapView.markersRef[1]

\* Two different points have been clicked and the polygon is on the map.
C22_Witness ==
    /\ mapView.ran = "click"
    /\ Len(mapView.markersRef) = 2
    /\ mapView.markersRef[1] # mapView.markersRef[2]
    /\ Len(mapView.mapBuffers) = 1

\* C23: whatever the handle and whatever was called before,
\* getAvailableLayers returns the same five layers, whose ids are pairwise
\* distinct and are the ids of the catalog.
C23_FixedCatalog ==
    lastOp = "getAvailableLayers" =>
       /\ Len(layersReturned) = Cardinality(Catalog)
       /\ {layersReturned[n].id : n \in 1..Len(layersReturned)} = Catalog
       /\ \A n, m \in 1..Len(layersReturned) :
             layersReturned[n].id = layersReturned[m].id => n = m
       /\ \A n \in 1..Len(layersReturned) :
             layersReturned[n].overlayFunction
                = OverlayFunction(layersReturned[n].id)

\* getAvailableLayers has been called on a handle without store and overlay
\* registry, and on one whose store was written before.
C23_Witness ==
    /\ lastOp = "getAvailableLayers"
    /\ \/ ~windyApi.store /\ ~windyApi.overlays
       \/ store.overlay = "invalid-layer"

\* C24: the distance is symmetric: the distance computed from the first
\* clicked point to the second is the distance from the second to the first.
C24_DistanceSymmetric ==
    Len(mapView.markersRef) = 2 =>
       mapView.distance = CalculateDistance(Location(mapView.markersRef[2]),
                                            Location(mapView.markersRef[1]))

\* The distance of two points of different latitude and longitude has been
\* computed and is not zero.
C24_Witness ==
    /\ Len(mapView.markersRef) = 2
    /\ Location(mapView.markersRef[1]).lat # Location(mapView.markersRef[2]).lat
    /\ Location(mapView.markersRef[1]).lng # Location(mapView.markersRef[2]).lng
    /\ mapView.distance > 0

\* C25: with two bootstrappers on one document, an instance that finds the
\* tag of the base library in the document before its load has completed
\* neither reports the base library as loaded nor appends the widget tag:
\* a loaded flag of the base library, and a widget tag, imply window.L.
C25_PendingTagNotLoaded ==
    \A i \in Inst :
        Flag(inst[i], "leaflet") \/ scripts[i]["windy"].inDoc => windowL

\* C26: whenever the widget handle is observable to the view (windyInstance
\* set, in the state or in the closure of the last render), every value the
\* options of the call configure has been written to the store: each unit
\* that is set, the hour format, and graticule whether true or false.
C26_ConfiguredBeforePublished ==
    \A i \in Inst :
        inst[i].windyInstance \/ inst[i].closure.windyInstance =>
           /\ \A unit \in inst[i].options.units :
                 UnitKey(unit) \in inst[i].written
           /\ inst[i].options.hourFormat = "24h" =>
                 "hourFormat" \in inst[i].written
           /\ inst[i].options.graticule \in {"true", "false"} =>
                 "graticule" \in inst[i].written

\* A handle has been published for a call that set graticule to false and a
\* single unit.
C26_Witness ==
    \E i \in Inst :
        /\ inst[i].closure.windyInstance
        /\ inst[i].options.graticule = "false"
        /\ inst[i].options.units = {"temperature"}
        /\ inst[i].options.hourFormat = "24h"

\* The zoom has stopped changing and nothing is left that would run a
\* check by itself: every event of the last zoom change has been delivered,
\* no delayed check is pending, the last state is rendered, the throttle
\* window is over and the poll sees the zoom it already knows.
ZoomSettled ==
    /\ mapView.mounted
    /\ mapView.pending = {}
    /\ mapView.timeouts = {} /\ mapView.young = {}
    /\ ~mapView.throttled
    /\ mapView.rendered = [currentZoom |-> mapView.currentZoom,
                           isBackupLayerActive |-> mapView.isBackupLayerActive]
    /\ mapView.zoom = mapView.rendered.currentZoom

\* C27: once the zoom has stopped changing the view is in the matching
\* imagery state: the detailed layer is on the map if the zoom is above 11
\* and off the map otherwise, whatever the order of the triggers was.
C27_SettledImageryMatches ==
    ZoomSettled => (mapView.layerOnMap > 0 <=> mapView.zoom > ZoomThreshold)

\* C28: between mount and unmount the detailed tile layer is constructed at
\* most once and is on the map at most once; the constructed object is kept
\* in backupLayerRef while the view is mounted, also after it has been
\* detached, so that the next activation attaches that same object.
C28_OneTileLayerObject ==
    mapView.mounted =>
        /\ mapView.constructed <= 1
        /\ mapView.layerOnMap <= 1
        /\ (mapView.constructed = 1 <=> mapView.backupLayerRef)
        /\ (mapView.layerOnMap = 1 => mapView.backupLayerRef)

\* The view has left the detailed imagery: the layer is off the map and the
\* one object constructed is still held.
C28_Witness ==
    /\ mapView.mounted
    /\ mapView.constructed = 1
    /\ mapView.backupLayerRef
    /\ mapView.layerOnMap = 0
    /\ mapView.zoom <= ZoomThreshold
    /\ ~mapView.isBackupLayerActive

\* C29: after the MapView has unmounted none of its timers runs a callback:
\* a delayed zoom check fires only while the view is mounted.
C29_NoTimerAfterUnmount ==
    [][mapView'.ran = "timeout" => mapView.mounted]_vars

\* Both scripts have loaded for WindyLayer i and nothing is left to run: the
\* one-second timer has fired, no windyInit call is pending, every state
\* change is rendered and every effect has run.
WindyLayerSettled(i) ==
    /\ inst[i].kind = "WindyLayer"
    /\ inst[i].mounted = "yes"
    /\ inst[i].leafletScriptLoaded /\ inst[i].windyScriptLoaded
    /\ windowL /\ windowWindyInit
    /\ ~inst[i].failed
    /\ inst[i].initAttemptedRef /\ ~inst[i].delayedInit
    /\ inst[i].pendingInit = 0
    /\ inst[i].effects = {}
    /\ inst[i].closure = Cur(inst[i])

\* C30: a WindyLayer whose two scripts have loaded obtains a widget handle:
\* once its delayed initialize call has run and nothing is left to run, the
\* hook holds the handle.
C30_HandleObtained ==
    \A i \in Inst : WindyLayerSettled(i) => inst[i].windyInstance

\* C31: whenever a view holds a widget handle the error state of its
\* initializer is empty: no error of an earlier not-ready call or failed
\* attempt is left to display.
C31_NoErrorWithHandle ==
    \A i \in Inst :
        inst[i].mounted = "yes" /\ inst[i].windyInstance
            => inst[i].error = "none"

\* Every view is a mounted WindyMap, both scripts have loaded and nothing is
\* left to run: no script is loading, no effect is pending, no windyInit
\* call is waiting for its callback and none has thrown.
WindyMapsSettled ==
    /\ windowL /\ windowWindyInit
    /\ \A i \in Inst :
          /\ inst[i].kind = "WindyMap"
          /\ inst[i].mounted = "yes"
          /\ inst[i].effects = {}
          /\ inst[i].pendingInit = 0
          /\ ~inst[i].failed
          /\ \A lib \in Lib : scripts[i][lib].st \notin {"pending", "failed"}

\* C32: WindyMap instances mounted together, whose two scripts load, each
\* initialise their map: once nothing is left to run every instance is
\* ready.
C32_EveryWindyMapReady ==
    WindyMapsSettled => \A i \in Inst : inst[i].windyInstance

\* The last step of the layer view came from outside: the parent passed
\* another list or unmounted the view.
LayersExternal == layersHook.ran \in {"input", "unmount"}

\* No render is scheduled and no effect is pending.
LayersQuiescent == ~layersHook.dirty /\ ~layersHook.effectPending

\* C33: with the map available, a view using useMapLayers that receives no
\* further event from outside runs its layer effect a bounded number of
\* times and comes to rest: unless outside events keep arriving, from some
\* point on no render is scheduled and no effect is pending.
C33_LayersComeToRest ==
    layersHook.variant = "useMapLayers"
        => ([]<>LayersExternal \/ <>[]LayersQuiescent)

\* C38: at most one layer-switcher control is attached to the map at any
\* time.
C38_OneLayerControl == Cardinality(layersHook.onMap) <= 1

\* C34: in the react-leaflet MapContainer, once the map is ready, every
\* click places a measurement marker, and the second click yields a
\* computed distance and the buffer around the first point.
C34_ClickPlacesMarker ==
    [][/\ clicks.variant = "reactLeaflet"
       /\ clicks.ready
       /\ clicks'.tick # clicks.tick
       => /\ Len(clicks'.markers) = Len(clicks.markers) + 1
          /\ Len(clicks'.markers) = 2 =>
                /\ clicks'.distance >= 0
                /\ clicks'.buffers = <<CreateBuffer(clicks'.markers[1], 1)>>]_vars

\* C35: after any sequence of map clicks at most two measurement markers
\* are on the map.
C35_AtMostTwoMarkers == Len(clicks.markers) <= 2

\* C36: once the map of a WindyMap is ready, after every change of
\* weatherData (the effect of the change has run) the weather marker layer
\* holds exactly the markers of the current weatherData, none when it is
\* empty.
C36_MarkersFollowWeatherData ==
    weather.mapReady /\ ~weather.effectPending
        => weather.markers = weather.weatherData

\* C37: the control panel keeps at most one change listener registered with
\* the adapter at any time, and none of its listeners is registered once it
\* has unmounted.
C37_OnePanelListener ==
    /\ Len(changeListeners) <= 1
    /\ ~panel.mounted => changeListeners = <<>>

\* C39: when a registered change listener throws while an event is being
\* dispatched, the listeners after it in the list still receive that event,
\* the events the running method has yet to announce are still dispatched,
\* and the exception reaches neither the caller of the method nor the
\* broadcaster of the handle: nothing but the dispatch position changes.
C39_ThrowIsContained ==
    [][caught' # caught =>
          /\ thrown' = thrown
          /\ changeListeners' = changeListeners
          /\ store' = store
          /\ Len(dispatch.queue) > 1 =>
                /\ dispatch'.event = dispatch.event
                /\ dispatch'.queue = Tail(dispatch.queue)
                /\ dispatch'.next = dispatch.next
          /\ Len(dispatch.queue) = 1 /\ dispatch.next # <<>> =>
                /\ dispatch'.event = Head(dispatch.next)
                /\ dispatch'.queue = changeListeners]_vars

\* The first of two listeners has thrown and the second is about to be
\* called with the same event.
C39_Witness ==
    /\ caught
    /\ ~thrown
    /\ dispatch # NoDispatch
    /\ Len(changeListeners) >= 2
    /\ dispatch.queue = Tail(changeListeners)

====
